---- MODULE Spec2Model ----
(***************************************************************************)
(* Shell-story section engine of jira-mcp-auth-bridge:                     *)
(*   - extractADFSection / countADFSectionsByHeading (markdown-converter)  *)
(*   - parseShellStoriesFromAdf and its extractors (shell-story-parser)    *)
(*   - addCompletionMarkerToShellStory (shell-story-parser)                *)
(*   - the write-next-story run that uses them (core-logic,                *)
(*     figma-screen-setup)                                                 *)
(*                                                                         *)
(* A string is a sequence of characters, so that includes / split / trim / *)
(* toLowerCase / regular-expression tests are computed, not assumed.       *)
(* An ADF node is a record; an absent `text` is the empty string, absent   *)
(* `marks` the empty sequence, an absent attrs.level (or mark href) the    *)
(* falsy value 0 (""), and `hasContent` says whether `content` is present  *)
(* (an empty array is present).  The code never tells these pairs apart.   *)
(***************************************************************************)
EXTENDS Integers, Sequences, FiniteSets, TLC

VARIABLES
    heap,       \* object store: reference -> the tree (array of nodes) allocated under it
    section,    \* the reference of the caller's Shell Stories section
    last,       \* the last addCompletionMarkerToShellStory call: arguments, snapshot, outcome
    clock,      \* what new Date() returns
    stories,    \* the last result of parseShellStoriesFromAdf
    content,    \* argument of extractADFSection / countADFSectionsByHeading
    label,      \* headingText argument
    extracted,  \* the last result of extractADFSection
    counted,    \* the last result of countADFSectionsByHeading
    jira,       \* the epic stored in Jira: project key, description and its content array
    issues,     \* the Jira issues created: key, summary, Blocks links
    run         \* the executeWriteNextStory run in progress

vars == <<heap, section, last, clock, stories, content, label, extracted, counted,
          jira, issues, run>>

(***************************************************************************)
(* Bounds of the model                                                     *)
(***************************************************************************)
MaxClock == 1
MaxTop == 4
MaxIssues == 2
MaxItems == 2

(***************************************************************************)
(* Strings                                                                 *)
(***************************************************************************)
Glyph == ">"            \* the separator glyph U+27E9
Space == " "
Newline == "\n"

Range(s) == { s[i] : i \in DOMAIN s }

IsSpace(c) == c \in {Space, Newline}

Includes(text, c) == \E i \in DOMAIN text : text[i] = c

IndexOf(text, c) == IF Includes(text, c)
                    THEN CHOOSE i \in DOMAIN text : text[i] = c /\ \A j \in 1..(i-1) : text[j] # c
                    ELSE 0

\* text.split(Glyph)[0]
SplitBefore(text) == SubSeq(text, 1, IndexOf(text, Glyph) - 1)

\* text.split(Glyph)[1]: what lies between the first glyph and the second (or the end)
SplitAfter(text) ==
    LET rest == SubSeq(text, IndexOf(text, Glyph) + 1, Len(text))
    IN  IF Includes(rest, Glyph) THEN SubSeq(rest, 1, IndexOf(rest, Glyph) - 1) ELSE rest

\* String.prototype.trim
Trim(text) ==
    LET keep == { i \in DOMAIN text : ~IsSpace(text[i]) }
    IN  IF keep = {} THEN <<>>
        ELSE SubSeq(text, CHOOSE i \in keep : \A j \in keep : i <= j,
                          CHOOSE i \in keep : \A j \in keep : i >= j)

ToLowerChar(c) == CASE c = "S" -> "s" [] c = "T" -> "t" [] c = "None" -> "none"
                    [] c = "NONE" -> "none" [] OTHER -> c

\* String.prototype.toLowerCase
ToLowerCase(text) == [i \in DOMAIN text |-> ToLowerChar(text[i])]

\* haystack.includes(needle)
IncludesText(haystack, needle) ==
    \E i \in 0..(Len(haystack) - Len(needle)) :
        SubSeq(haystack, i + 1, i + Len(needle)) = needle

IsDigit(c) == c \in {"0", "1", "2", "3", "4", "5", "6", "7", "8", "9"}

\* /^st\d+$/
MatchesStoryId(text) ==
    /\ Len(text) >= 3
    /\ text[1] = "s"
    /\ text[2] = "t"
    /\ \A i \in 3..Len(text) : IsDigit(text[i])

(***************************************************************************)
(* ADF nodes (values)                                                      *)
(***************************************************************************)
Node(type, text, marks, level, hasContent, kids) ==
    [type |-> type, text |-> text, marks |-> marks, level |-> level,
     hasContent |-> hasContent, content |-> kids]

Mark(type) == [type |-> type, href |-> ""]
Link(href) == [type |-> "link", href |-> href]

Text(text, marks) == Node("text", text, marks, 0, FALSE, <<>>)
HardBreak == Node("hardBreak", <<>>, <<>>, 0, FALSE, <<>>)
Block(type, kids) == Node(type, <<>>, <<>>, 0, TRUE, kids)
Heading(level, kids) == Node("heading", <<>>, <<>>, level, TRUE, kids)

\* node.marks?.some(mark => mark.type === markType) ?? false
hasMarkType(node, markType) == \E i \in DOMAIN node.marks : node.marks[i].type = markType

\* node.marks?.find(m => m.type === markType)?.attrs?.[attrName], for attrName = 'href'
getMarkAttribute(node, markType) ==
    IF hasMarkType(node, markType)
    THEN node.marks[CHOOSE i \in DOMAIN node.marks :
                        /\ node.marks[i].type = markType
                        /\ \A j \in 1..(i-1) : node.marks[j].type # markType].href
    ELSE ""

\* the nodes of `nodes` with the given type that have content, in order
forEachWithContent(nodes, type) ==
    SelectSeq(nodes, LAMBDA n : n.type = type /\ n.hasContent)

\* flattening of a sequence of sequences
RECURSIVE Flatten(_)
Flatten(seqs) == IF seqs = <<>> THEN <<>> ELSE Head(seqs) \o Flatten(Tail(seqs))

MinOf(S) == CHOOSE x \in S : \A y \in S : x <= y

\* the positions <<i, j, ...>> of the nodes of a tree: the i-th root, its j-th child, ...
RECURSIVE PathsOf(_)
PathsOf(nodes) ==
    UNION { {<<i>>} \cup { <<i>> \o q : q \in PathsOf(nodes[i].content) } : i \in DOMAIN nodes }

RECURSIVE NodeAt(_, _)
NodeAt(nodes, p) ==
    IF Len(p) = 1 THEN nodes[p[1]] ELSE NodeAt(nodes[p[1]].content, Tail(p))

(***************************************************************************)
(* Shell-story parser (shell-story-parser.ts)                              *)
(***************************************************************************)
NullId == <<"null">>     \* extractStoryId's null: no string equals it

\* itemContent.find(node => node.type === 'paragraph'): its index, 0 if there is none
FirstParagraphIndex(itemContent) ==
    LET ps == { i \in DOMAIN itemContent : itemContent[i].type = "paragraph" }
    IN  IF ps = {} THEN 0 ELSE MinOf(ps)

extractStoryId(itemContent) ==
    LET pi == FirstParagraphIndex(itemContent)
    IN  IF pi = 0 THEN NullId
        ELSE IF ~itemContent[pi].hasContent THEN NullId
        ELSE LET c == itemContent[pi].content
                 hits == { i \in DOMAIN c : /\ c[i].type = "text"
                                            /\ hasMarkType(c[i], "code")
                                            /\ MatchesStoryId(c[i].text) }
             IN  IF hits = {} THEN NullId ELSE c[MinOf(hits)].text

\* the loop of extractTitleInfo over paragraph.content, from index i
RECURSIVE TitleScan(_, _, _)
TitleScan(c, i, acc) ==
    IF i > Len(c) THEN acc
    ELSE LET n == c[i] IN
         IF n.type = "text" /\ hasMarkType(n, "code")
         THEN TitleScan(c, i + 1, [acc EXCEPT !.foundId = TRUE])
         ELSE IF n.type = "text" /\ Includes(n.text, Glyph)
         THEN [acc EXCEPT !.foundSeparator = TRUE,
                          !.title = IF SplitBefore(n.text) # <<>>
                                    THEN @ \o Trim(SplitBefore(n.text)) ELSE @]
         ELSE IF acc.foundId /\ n.type = "text"
         THEN TitleScan(c, i + 1,
                  [acc EXCEPT !.jiraUrl = IF hasMarkType(n, "link")
                                          THEN getMarkAttribute(n, "link") ELSE @,
                              !.title = @ \o Trim(n.text) \o <<Space>>])
         ELSE TitleScan(c, i + 1, acc)

\* [found |-> FALSE] is the code's null
extractTitleInfo(itemContent) ==
    LET pi == FirstParagraphIndex(itemContent)
        none == [found |-> FALSE, title |-> <<>>, jiraUrl |-> ""]
    IN  IF pi = 0 THEN none
        ELSE IF ~itemContent[pi].hasContent THEN none
        ELSE LET r == TitleScan(itemContent[pi].content, 1,
                          [foundId |-> FALSE, foundSeparator |-> FALSE,
                           title |-> <<>>, jiraUrl |-> ""])
             IN  IF r.foundId /\ r.foundSeparator /\ r.title # <<>>
                 THEN [found |-> TRUE, title |-> Trim(r.title), jiraUrl |-> r.jiraUrl]
                 ELSE none

\* the loop of extractDescription over paragraph.content, from index i
RECURSIVE DescriptionScan(_, _, _)
DescriptionScan(c, i, acc) ==
    IF i > Len(c) THEN acc
    ELSE LET n == c[i] IN
         IF n.type = "text"
         THEN IF Includes(n.text, Glyph)
              THEN DescriptionScan(c, i + 1,
                       [foundSeparator |-> TRUE,
                        description |-> IF SplitAfter(n.text) # <<>>
                                        THEN acc.description \o Trim(SplitAfter(n.text))
                                        ELSE acc.description])
              ELSE IF acc.foundSeparator /\ ~hasMarkType(n, "em")
              THEN DescriptionScan(c, i + 1,
                       [acc EXCEPT !.description = @ \o <<Space>> \o Trim(n.text)])
              ELSE DescriptionScan(c, i + 1, acc)
         ELSE IF acc.foundSeparator /\ n.type = "hardBreak"
         THEN DescriptionScan(c, i + 1, [acc EXCEPT !.description = @ \o <<Newline>>])
         ELSE DescriptionScan(c, i + 1, acc)

extractDescription(itemContent) ==
    LET pi == FirstParagraphIndex(itemContent)
    IN  IF pi = 0 THEN <<>>
        ELSE IF ~itemContent[pi].hasContent THEN <<>>
        ELSE Trim(DescriptionScan(itemContent[pi].content, 1,
                      [foundSeparator |-> FALSE, description |-> <<>>]).description)

RECURSIVE extractTextFromAdfNodes(_)
extractTextFromAdfNodes(nodes) ==
    IF nodes = <<>> THEN <<>>
    ELSE LET node == Head(nodes)
             own == IF node.type = "text" THEN node.text
                    ELSE IF node.type = "hardBreak" THEN <<Newline>>
                    ELSE IF node.hasContent THEN extractTextFromAdfNodes(node.content)
                    ELSE <<>>
         IN  own \o extractTextFromAdfNodes(Tail(nodes))

DepsTag == "DEPENDENCIES:"      \* the literal 'DEPENDENCIES:', one token
Comma == ","

\* text.split(',')
RECURSIVE SplitComma(_)
SplitComma(text) ==
    IF ~Includes(text, Comma) THEN <<text>>
    ELSE <<SubSeq(text, 1, IndexOf(text, Comma) - 1)>>
         \o SplitComma(SubSeq(text, IndexOf(text, Comma) + 1, Len(text)))

\* the ids one paragraph of a nested list contributes
DependenciesOfParagraph(paragraph) ==
    LET c == paragraph.content
        isDependenciesLine == /\ c # <<>>
                              /\ c[1].type = "text"
                              /\ c[1].text # <<>>
                              /\ Includes(c[1].text, DepsTag)
        paragraphText == extractTextFromAdfNodes(c)
        \* replace(/^DEPENDENCIES:\s*/, '').trim(): the trim also strips what \s* would
        depsText == Trim(IF paragraphText # <<>> /\ paragraphText[1] = DepsTag
                         THEN Tail(paragraphText) ELSE paragraphText)
        values == [i \in DOMAIN SplitComma(depsText) |-> Trim(SplitComma(depsText)[i])]
    IN  IF ~isDependenciesLine THEN <<>>
        ELSE IF ToLowerCase(depsText) = <<"none">> THEN <<>>
        ELSE SelectSeq(values, LAMBDA v : v # <<>>)

\* the paragraphs with content of the list items with content of the nested bullet lists
NestedParagraphs(itemContent) ==
    LET lists == forEachWithContent(itemContent, "bulletList")
        items == Flatten([i \in DOMAIN lists |-> forEachWithContent(lists[i].content, "listItem")])
    IN  Flatten([i \in DOMAIN items |-> forEachWithContent(items[i].content, "paragraph")])

extractDependencies(itemContent) ==
    Flatten([i \in DOMAIN NestedParagraphs(itemContent) |->
                DependenciesOfParagraph(NestedParagraphs(itemContent)[i])])

NoStory == [id |-> NullId, title |-> <<>>, description |-> <<>>, jiraUrl |-> "",
            dependencies |-> <<>>]

\* error = "" : the story; otherwise the Error thrown, with the id its message names
parseShellStoryFromListItem(listItem) ==
    LET storyId == extractStoryId(listItem.content)
        titleInfo == extractTitleInfo(listItem.content)
        description == extractDescription(listItem.content)
    IN  IF listItem.type # "listItem" \/ ~listItem.hasContent
        THEN [error |-> "null", errId |-> NullId, story |-> NoStory]
        ELSE IF storyId = NullId
        THEN [error |-> "missing ID", errId |-> NullId, story |-> NoStory]
        ELSE IF ~titleInfo.found
        THEN [error |-> "missing title or separator", errId |-> storyId, story |-> NoStory]
        ELSE IF description = <<>>
        THEN [error |-> "missing description", errId |-> storyId, story |-> NoStory]
        ELSE [error |-> "", errId |-> NullId,
              story |-> [id |-> storyId, title |-> titleInfo.title,
                         description |-> description, jiraUrl |-> titleInfo.jiraUrl,
                         dependencies |-> extractDependencies(listItem.content)]]

\* the list items parseShellStoriesFromAdf and addCompletionMarkerToShellStory visit
StoryItems(shellStoriesSection) ==
    Flatten([i \in DOMAIN forEachWithContent(shellStoriesSection, "bulletList") |->
                forEachWithContent(forEachWithContent(shellStoriesSection, "bulletList")[i].content,
                                   "listItem")])

\* a parser that skips the items it cannot parse and returns the rest
parseSkippingMalformed(shellStoriesSection) ==
    LET items == StoryItems(shellStoriesSection)
        res == [i \in DOMAIN items |-> parseShellStoryFromListItem(items[i])]
        good == SelectSeq(res, LAMBDA r : r.error = "")
    IN  [error |-> "", errId |-> NullId, stories |-> [i \in DOMAIN good |-> good[i].story]]

\* error = "" : the stories; otherwise the first Error thrown, in document order
parseShellStoriesFromAdf(shellStoriesSection) ==
    LET items == StoryItems(shellStoriesSection)
        res == [i \in DOMAIN items |-> parseShellStoryFromListItem(items[i])]
        bad == { i \in DOMAIN res : res[i].error \notin {"", "null"} }
        good == SelectSeq(res, LAMBDA r : r.error = "")
    IN  IF bad # {}
        THEN [error |-> res[MinOf(bad)].error, errId |-> res[MinOf(bad)].errId, stories |-> <<>>]
        ELSE [error |-> "", errId |-> NullId, stories |-> [i \in DOMAIN good |-> good[i].story]]

(***************************************************************************)
(* Object store.  structuredClone copies a whole tree and the marker only  *)
(* writes into the tree it cloned, so the objects of one tree are          *)
(* allocated together: the store maps a reference (the generation of       *)
(* objects a root array belongs to) to the tree those objects form.  Two   *)
(* trees share an object exactly when their references are equal.          *)
(***************************************************************************)

\* a clone that copies nothing: the result is the argument itself
structuredCloneAlias(h, ref, g) == [heap |-> h, ref |-> ref]

\* structuredClone(value): every object of the tree is copied to a fresh object
structuredClone(h, ref, g) == [heap |-> (g :> h[ref]) @@ h, ref |-> g]

(***************************************************************************)
(* Completion marker (shell-story-parser.ts)                               *)
(***************************************************************************)
IsoChars == <<"T0", "T1", "T2", "T3", "T4", "T5">>

\* new Date(t).toISOString(), one character per instant
ToISOString(t) == <<IsoChars[t + 1]>>

\* the loop of findTitleParts over the paragraph's content, from index i;
\* titleNodes holds the indices of the nodes pushed
RECURSIVE TitlePartsScan(_, _, _, _)
TitlePartsScan(c, i, passedId, titleNodes) ==
    IF i > Len(c) THEN titleNodes
    ELSE IF c[i].type = "text" /\ hasMarkType(c[i], "code")
    THEN TitlePartsScan(c, i + 1, TRUE, titleNodes)
    ELSE IF c[i].type = "text" /\ Includes(c[i].text, Glyph)
    THEN titleNodes
    ELSE IF passedId /\ c[i].type = "text"
    THEN TitlePartsScan(c, i + 1, passedId, titleNodes \cup {i})
    ELSE TitlePartsScan(c, i + 1, passedId, titleNodes)

findTitleParts(c) == TitlePartsScan(c, 1, FALSE, {})

\* a marker that pushes the link mark whatever marks the node has
addLinkAlways(textNode, url) ==
    IF textNode.type # "text" THEN textNode
    ELSE [textNode EXCEPT !.marks = Append(@, Link(url))]

\* the node after addLinkToNode(textNode, url)
addLinkToNode(textNode, url) ==
    IF textNode.type # "text" THEN textNode
    ELSE IF hasMarkType(textNode, "link") THEN textNode
    ELSE [textNode EXCEPT !.marks = Append(@, Link(url))]

\* a marker that writes the timestamp run in front of the paragraph's nodes
prependTimestamp(c, now) ==
    << Text(<<"(">> \o ToISOString(now) \o <<")">>, <<Mark("em")>>), Text(<<Space>>, <<>>) >> \o c

\* the array after appendOrUpdateTimestamp(content)
appendOrUpdateTimestamp(c, now) ==
    LET stamp == <<"(">> \o ToISOString(now) \o <<")">>
        em == { i \in DOMAIN c : c[i].type = "text" /\ hasMarkType(c[i], "em") }
    IN  IF em # {}
        THEN [c EXCEPT ![MinOf(em)].text = stamp]
        ELSE c \o << Text(<<Space>>, <<>>), Text(stamp, <<Mark("em")>>) >>

\* the callback run on each paragraph of a matching list item
MarkParagraph(paragraph, issueUrl, now) ==
    [paragraph EXCEPT !.content =
        appendOrUpdateTimestamp(
            [i \in DOMAIN paragraph.content |->
                IF i \in findTitleParts(paragraph.content)
                THEN addLinkToNode(paragraph.content[i], issueUrl)
                ELSE paragraph.content[i]],
            now)]

\* the callback run on each list item: id !== storyId returns, otherwise every paragraph
\* with content is marked
MarkListItem(listItem, storyId, issueUrl, now) ==
    IF extractStoryId(listItem.content) # storyId THEN listItem
    ELSE [listItem EXCEPT !.content =
             [i \in DOMAIN listItem.content |->
                 IF listItem.content[i].type = "paragraph" /\ listItem.content[i].hasContent
                 THEN MarkParagraph(listItem.content[i], issueUrl, now)
                 ELSE listItem.content[i]]]

\* the two nested forEachWithContent loops over newSection
MarkSection(newSection, storyId, issueUrl, now) ==
    [k \in DOMAIN newSection |->
        IF newSection[k].type = "bulletList" /\ newSection[k].hasContent
        THEN [newSection[k] EXCEPT !.content =
                 [i \in DOMAIN newSection[k].content |->
                     IF /\ newSection[k].content[i].type = "listItem"
                        /\ newSection[k].content[i].hasContent
                     THEN MarkListItem(newSection[k].content[i], storyId, issueUrl, now)
                     ELSE newSection[k].content[i]]]
        ELSE newSection[k]]

\* a flag that starts out set
storyFoundAlways(newSection, storyId) == TRUE

\* the value of storyFound after the loops
storyFound(newSection, storyId) ==
    \E i \in DOMAIN StoryItems(newSection) :
        extractStoryId(StoryItems(newSection)[i].content) = storyId

\* addCompletionMarkerToShellStory(shellStoriesSection, storyId, issueKey, issueUrl) run on
\* the store h, with shellStoriesSection the reference ref, `now` the clock's reading and g a
\* reference no tree of h has.  threw = TRUE: the Error names errId and nothing is returned.
addCompletionMarkerToShellStory(h, ref, storyId, issueUrl, now, g) ==
    LET newSection == structuredClone(h, ref, g)
        marked == [newSection.heap EXCEPT ![newSection.ref] =
                      MarkSection(newSection.heap[newSection.ref], storyId, issueUrl, now)]
    IN  IF ~storyFound(newSection.heap[newSection.ref], storyId)
        THEN [heap |-> marked, threw |-> TRUE, errId |-> storyId, ref |-> -1]
        ELSE [heap |-> marked, threw |-> FALSE, errId |-> NullId, ref |-> newSection.ref]

(***************************************************************************)
(* Sections the marker and the parser are run on                           *)
(***************************************************************************)
Code == Mark("code")
Strong == Mark("strong")
Em == Mark("em")

St1 == <<"s", "t", "1">>
St2 == <<"s", "t", "2">>
St9 == <<"s", "t", "9">>

\* an inline node of a kind the code does not know
Mention == Node("mention", <<>>, <<>>, 7, FALSE, <<>>)
\* a block node of a kind the code does not know
UnknownNode == Node("unknownNode", <<>>, <<>>, 7, FALSE, <<>>)

\* the first paragraph of a story is  id \o title \o separator \o tail
IdSlot ==
    { <<Text(St1, <<Code>>)>>,
      <<Text(St1, <<Code, Em>>)>>,
      <<>> }
TitleSlot ==
    { <<>>,
      <<Text(<<Space>>, <<>>), Text(<<"L">>, <<Strong>>)>>,
      <<Text(<<"L">>, <<Em>>)>>,
      <<Text(<<"L">>, <<Strong, Link("u0")>>)>>,
      <<Text(<<"L">>, <<Link("u0")>>), Text(<<"L">>, <<>>)>> }
SepSlot ==
    { <<Text(<<Space, Glyph, Space, "d">>, <<>>)>>,
      <<Text(<<"L", Space, Glyph, Space, "d">>, <<>>)>>,
      <<Text(<<Space, Glyph, Space, "d">>, <<Em>>)>>,
      <<>> }
TailSlot ==
    { <<>>,
      <<HardBreak, Text(<<"e">>, <<>>)>>,
      <<Text(<<Space>>, <<>>), Text(<<"(", "T0", ")">>, <<Em>>)>> }

FirstParagraphs ==
    { Block("paragraph", i \o t \o s \o l) :
        i \in IdSlot, t \in TitleSlot, s \in SepSlot, l \in TailSlot }

NestedList ==
    Block("bulletList",
        << Block("listItem",
               << Block("paragraph",
                      << Text(<<"x">>, <<Link("f1")>>), HardBreak, Mention,
                         Text(<<"y">>, <<Link("f2")>>) >>) >>) >>)

SecondParagraph ==
    Block("paragraph", << Text(<<"n">>, <<>>), Text(<<"c">>, <<Code>>), Text(<<"m">>, <<>>) >>)

\* what follows the first paragraph inside the story's list item
ItemRest == { <<>>, <<NestedList, UnknownNode>>, <<SecondParagraph, NestedList>> }

OtherItem ==
    Block("listItem",
        << Block("paragraph",
               << Text(St2, <<Code>>), Text(<<Space>>, <<>>), Text(<<"M">>, <<Strong>>),
                  Text(<<Space, Glyph, Space, "f">>, <<>>), HardBreak, Text(<<"g">>, <<>>) >>) >>)

ShellStoriesHeading == Heading(2, <<Text(<<"S", "T">>, <<>>)>>)

Sections ==
    { << ShellStoriesHeading,
         Block("bulletList", << Block("listItem", <<p>> \o r), OtherItem >>),
         UnknownNode >> :
        p \in FirstParagraphs, r \in ItemRest }

RequestIds == {St1, St9}
Urls == {"u1", "u2"}

(***************************************************************************)
(* Specification Spec: a caller that keeps a section and marks stories     *)
(***************************************************************************)
NoCall ==
    [outcome |-> "none", id |-> NullId, url |-> "", now |-> 0, input |-> 0,
     snapshot |-> <<>>, errId |-> NullId, result |-> -1]

NotParsed == [error |-> "not parsed", errId |-> NullId, stories |-> <<>>]
NotExtracted == [called |-> FALSE, section |-> <<>>, remainingContent |-> <<>>]
\* errorKey: the issue key the run's error states (0: none); put: a PUT of the epic was sent;
\* sent: the writes the run has sent to Jira, in order
NoRun == [pc |-> "idle", error |-> "", nextStory |-> 0, createdIssue |-> 0,
          errorKey |-> 0, put |-> FALSE, sent |-> <<>>]

Idle ==
    /\ content = <<>>
    /\ label = <<>>
    /\ extracted = NotExtracted
    /\ counted = -1
    /\ jira = <<>>
    /\ issues = {}
    /\ run = NoRun

Init ==
    /\ \E s \in Sections : heap = (0 :> s)
    /\ section = 0
    /\ last = NoCall
    /\ clock = 0
    /\ stories = NotParsed
    /\ Idle

\* The caller calls addCompletionMarkerToShellStory on its section and, when the call
\* returns, keeps the returned tree as its section.  Trees nobody references any more
\* are dropped; the caller's tree then has reference 0 and the clone reference 1.
MarkStory(id, url) ==
    \E r \in { addCompletionMarkerToShellStory((0 :> heap[section]), 0, id, url, clock, 1) } :
        /\ heap' = [g \in {0} \cup ({r.ref} \ {-1}) |-> r.heap[g]]
        /\ section' = IF r.threw THEN 0 ELSE r.ref
        /\ last' = [outcome |-> IF r.threw THEN "threw" ELSE "returned",
                    id |-> id, url |-> url, now |-> clock, input |-> 0,
                    snapshot |-> heap[section], errId |-> r.errId, result |-> r.ref]
        /\ UNCHANGED <<clock, stories, content, label, extracted, counted, jira, issues, run>>

MarkCompleted == \E id \in RequestIds, url \in Urls : MarkStory(id, url)

Tick ==
    /\ clock < MaxClock
    /\ clock' = clock + 1
    /\ UNCHANGED <<heap, section, last, stories, content, label, extracted, counted,
                   jira, issues, run>>

Next == MarkCompleted \/ Tick

Spec == Init /\ [][Next]_vars

(***************************************************************************)
(* Claims about addCompletionMarkerToShellStory (specification Spec)       *)
(***************************************************************************)
Returned == last.outcome = "returned"
Threw == last.outcome = "threw"
Before == last.snapshot                         \* the input as it was before the call
After == heap[last.result]                      \* the returned tree
ParsedBefore == parseShellStoriesFromAdf(Before)
ParsedAfter == parseShellStoriesFromAdf(After)

ListedIds(parsed) == { parsed.stories[i].id : i \in DOMAIN parsed.stories }

\* C1: marking is idempotent: for a section the parser accepts that lists the story,
\* marking the returned tree again with the same id and url (the clock reading the same
\* instant) returns a tree structurally equal to it.
C1_Idempotent ==
    [][ ( /\ Returned
          /\ ParsedBefore.error = ""
          /\ last.id \in ListedIds(ParsedBefore)
          /\ last' # last
          /\ last'.id = last.id
          /\ last'.url = last.url
          /\ last'.now = last.now )
        => ( /\ last'.outcome = "returned"
             /\ heap'[last'.result] = heap[last.result] ) ]_vars

\* C2: the marker never mutates its input: after a call, returned or thrown, the input
\* tree equals its snapshot, and a returned tree shares no object with the input.
C2_NonAliasing ==
    last.outcome # "none" =>
        /\ heap[last.input] = last.snapshot
        /\ Returned => (last.result # last.input /\ last.result \in DOMAIN heap)

C2_Witness == Returned /\ After # Before

\* C3: marking makes the story completed: if the parser accepts the input and lists the
\* story without a jiraUrl, parsing the returned tree lists it with jiraUrl = url.
C3_MarkedIsCompleted ==
    ( /\ Returned
      /\ ParsedBefore.error = ""
      /\ \E i \in DOMAIN ParsedBefore.stories :
            ParsedBefore.stories[i].id = last.id /\ ParsedBefore.stories[i].jiraUrl = "" )
    => ( /\ ParsedAfter.error = ""
         /\ \E i \in DOMAIN ParsedAfter.stories :
               ParsedAfter.stories[i].id = last.id /\ ParsedAfter.stories[i].jiraUrl = last.url )

\* C4: round trip: parsing the returned tree yields the same ids, titles and
\* descriptions, in the same order, as parsing the input did.
C4_RoundTrip ==
    (Returned /\ ParsedBefore.error = "")
    => ( /\ ParsedAfter.error = ""
         /\ Len(ParsedAfter.stories) = Len(ParsedBefore.stories)
         /\ \A i \in DOMAIN ParsedBefore.stories :
               /\ ParsedAfter.stories[i].id = ParsedBefore.stories[i].id
               /\ ParsedAfter.stories[i].title = ParsedBefore.stories[i].title
               /\ ParsedAfter.stories[i].description = ParsedBefore.stories[i].description )

\* the identifiers a list item shows: the code-marked texts of its first paragraph
ItemIdentifiers(item) ==
    IF FirstParagraphIndex(item.content) = 0 THEN {}
    ELSE { n.text : n \in { m \in Range(item.content[FirstParagraphIndex(item.content)].content) :
                              m.type = "text" /\ hasMarkType(m, "code") } }

\* some top-level list item of the section shows the identifier id
HasItemWithId(nodes, id) ==
    \E k \in DOMAIN nodes :
        /\ nodes[k].type \in {"bulletList", "orderedList"}
        /\ \E i \in DOMAIN nodes[k].content :
              /\ nodes[k].content[i].type = "listItem"
              /\ id \in ItemIdentifiers(nodes[k].content[i])

\* C5: lookup error: when no top-level list item has the requested id the call throws an
\* error naming that id, returns no tree and leaves the input unchanged.
C5_LookupError ==
    (last.outcome # "none" /\ ~HasItemWithId(Before, last.id))
    => ( /\ Threw
         /\ last.errId = last.id
         /\ last.result = -1
         /\ heap[last.input] = Before )

C5_Witness == Threw /\ ~HasItemWithId(Before, last.id)

HardBreakPaths(nodes) == { p \in PathsOf(nodes) : NodeAt(nodes, p).type = "hardBreak" }

\* C7: the returned tree has exactly the hardBreak nodes of the input, each at the same
\* position in its parent.
C7_HardBreaksPreserved ==
    Returned => HardBreakPaths(After) = HardBreakPaths(Before)

\* a call returned for a story whose own first paragraph holds a hardBreak
C7_Witness ==
    /\ Returned
    /\ After # Before
    /\ \E p \in HardBreakPaths(Before) : Len(p) = 4 /\ p[1] = 2 /\ p[2] = 1 /\ p[3] = 1

\* the title nodes of a paragraph: its text nodes after the identifier (the first
\* code-marked text) and before the separator (the first text holding the glyph)
TitleIndices(c) ==
    LET ids == { j \in DOMAIN c : c[j].type = "text" /\ hasMarkType(c[j], "code") }
        seps == { j \in DOMAIN c : c[j].type = "text" /\ ~hasMarkType(c[j], "code")
                                    /\ Includes(c[j].text, Glyph) }
    IN  IF ids = {} THEN {}
        ELSE { j \in DOMAIN c : /\ c[j].type = "text"
                                /\ j > MinOf(ids)
                                /\ \A k \in seps : j < k }

\* inline node j is unchanged, except that a title node may have gained a link mark to
\* url and (where mayStamp) the emphasis-marked timestamp text may have been rewritten
InlineFrame(ci, co, j, url, mayStamp) ==
    /\ co[j] = [ci[j] EXCEPT !.marks = co[j].marks, !.text = co[j].text]
    /\ \/ co[j].marks = ci[j].marks
       \/ j \in TitleIndices(ci) /\ co[j].marks = ci[j].marks \o <<Link(url)>>
    /\ \/ co[j].text = ci[j].text
       \/ mayStamp /\ ci[j].type = "text" /\ hasMarkType(ci[j], "em")

\* the target's first paragraph: a timestamp run of two nodes is appended, or the
\* trailing emphasis-marked text is rewritten; nothing else but title link marks changes
ParagraphFrame(pin, pout, url) ==
    /\ pout = [pin EXCEPT !.content = pout.content]
    /\ \/ /\ Len(pout.content) = Len(pin.content) + 2
          /\ \A j \in DOMAIN pin.content : InlineFrame(pin.content, pout.content, j, url, FALSE)
       \/ /\ Len(pout.content) = Len(pin.content)
          /\ \A j \in DOMAIN pin.content :
                InlineFrame(pin.content, pout.content, j, url, j = Len(pin.content))

ItemFrame(iin, iout, url) ==
    /\ iout = [iin EXCEPT !.content = iout.content]
    /\ Len(iout.content) = Len(iin.content)
    /\ \A j \in DOMAIN iin.content :
          IF j = FirstParagraphIndex(iin.content)
          THEN ParagraphFrame(iin.content[j], iout.content[j], url)
          ELSE iout.content[j] = iin.content[j]

ListFrame(lin, lout, id, url) ==
    /\ lout = [lin EXCEPT !.content = lout.content]
    /\ Len(lout.content) = Len(lin.content)
    /\ \A i \in DOMAIN lin.content :
          IF lin.content[i].type = "listItem" /\ id \in ItemIdentifiers(lin.content[i])
          THEN ItemFrame(lin.content[i], lout.content[i], url)
          ELSE lout.content[i] = lin.content[i]

\* C6: frame of the marker: in the returned tree every node other than the target
\* item's title text nodes (which only gain a link mark) and its timestamp run equals
\* the input node at the same position: other items, nested lists, the target's other
\* paragraphs and inline nodes, and nodes of unrecognized kind.
C6_Frame ==
    Returned =>
        /\ Len(After) = Len(Before)
        /\ \A k \in DOMAIN Before :
              IF Before[k].type \in {"bulletList", "orderedList"}
              THEN ListFrame(Before[k], After[k], last.id, last.url)
              ELSE After[k] = Before[k]

(***************************************************************************)
(* Section extractor: extractADFSection and countADFSectionsByHeading      *)
(***************************************************************************)
\* node.content?.some(n => n.type === 'text' &&
\*                         n.text?.toLowerCase().includes(headingText.toLowerCase()))
hasMatchingText(node, headingText) ==
    /\ node.hasContent
    /\ \E k \in DOMAIN node.content :
          /\ node.content[k].type = "text"
          /\ IncludesText(ToLowerCase(node.content[k].text), ToLowerCase(headingText))

\* node.attrs?.level || 2
headingLevel(node) == IF node.level = 0 THEN 2 ELSE node.level

countADFSectionsByHeading(nodes, headingText) ==
    Cardinality({ i \in DOMAIN nodes :
                    nodes[i].type = "heading" /\ hasMatchingText(nodes[i], headingText) })

\* the first loop: the index of the first matching heading, -1 if there is none
sectionStartIndex(nodes, headingText) ==
    LET matching == { i \in DOMAIN nodes :
                        nodes[i].type = "heading" /\ hasMatchingText(nodes[i], headingText) }
    IN  IF matching = {} THEN -1 ELSE MinOf(matching)

\* a section that ends at the next heading of any level
nextHeadingIndex(nodes, start, sectionLevel) ==
    LET later == { i \in (start + 1)..Len(nodes) : nodes[i].type = "heading" }
    IN  IF later = {} THEN Len(nodes) + 1 ELSE MinOf(later)

\* the second loop: the index of the first later heading whose level is <= sectionLevel,
\* content.length if there is none (indices from 1 here)
sectionEndIndex(nodes, start, sectionLevel) ==
    LET later == { i \in (start + 1)..Len(nodes) :
                     nodes[i].type = "heading" /\ headingLevel(nodes[i]) <= sectionLevel }
    IN  IF later = {} THEN Len(nodes) + 1 ELSE MinOf(later)

\* an extractor that returns the nodes after the section ahead of the nodes before it
extractRotated(nodes, headingText) ==
    LET start == sectionStartIndex(nodes, headingText)
    IN  IF start = -1
        THEN [section |-> <<>>, remainingContent |-> nodes]
        ELSE LET end == sectionEndIndex(nodes, start, headingLevel(nodes[start]))
             IN  [section |-> SubSeq(nodes, start, end - 1),
                  remainingContent |-> SubSeq(nodes, end, Len(nodes)) \o SubSeq(nodes, 1, start - 1)]

extractADFSection(nodes, headingText) ==
    LET start == sectionStartIndex(nodes, headingText)
    IN  IF start = -1
        THEN [section |-> <<>>, remainingContent |-> nodes]
        ELSE LET end == sectionEndIndex(nodes, start, headingLevel(nodes[start]))
             IN  [section |-> SubSeq(nodes, start, end - 1),
                  remainingContent |-> SubSeq(nodes, 1, start - 1) \o SubSeq(nodes, end, Len(nodes))]

\* top-level nodes of a description
StPlain == Heading(2, <<Text(<<"S", "T">>, <<>>)>>)                       \* ## ST
StLower == Heading(3, <<Text(<<"x", "s", "t">>, <<>>)>>)                  \* ### xst
StSplit == Heading(1, <<Text(<<"S">>, <<Strong>>), Text(<<"T">>, <<>>)>>) \* # **S**T
OtherHeading == Heading(2, <<Text(<<"x">>, <<>>)>>)
DeepHeading == Heading(3, <<Text(<<"x">>, <<>>), Mention>>)
NoLevelHeading == Heading(0, <<Text(<<"T">>, <<>>)>>)                     \* attrs.level absent
EmptyHeading == Node("heading", <<>>, <<>>, 1, FALSE, <<>>)               \* no content array
StParagraph == Block("paragraph", <<Text(<<"S", "T">>, <<>>)>>)

TopNodes == { StPlain, StLower, StSplit, OtherHeading, DeepHeading, NoLevelHeading,
              EmptyHeading, StParagraph }

RECURSIVE SeqsUpTo(_, _)
SeqsUpTo(S, n) ==
    IF n = 0 THEN { <<>> }
    ELSE SeqsUpTo(S, n - 1) \cup { Append(q, x) : q \in { r \in SeqsUpTo(S, n - 1) : Len(r) = n - 1 }, x \in S }

Labels == { <<"S", "T">>, <<"s", "t">>, <<"T">> }

InitExtract ==
    /\ content \in SeqsUpTo(TopNodes, MaxTop)
    /\ label \in Labels
    /\ extracted = NotExtracted
    /\ counted = -1
    /\ heap = (0 :> <<>>)
    /\ section = 0
    /\ last = NoCall
    /\ clock = 0
    /\ stories = NotParsed
    /\ jira = <<>>
    /\ issues = {}
    /\ run = NoRun

Extract ==
    /\ ~extracted.called
    /\ \E r \in { extractADFSection(content, label) } :
          extracted' = [called |-> TRUE, section |-> r.section,
                        remainingContent |-> r.remainingContent]
    /\ UNCHANGED <<heap, section, last, clock, stories, content, label, counted,
                   jira, issues, run>>

Count ==
    /\ counted = -1
    /\ counted' = countADFSectionsByHeading(content, label)
    /\ UNCHANGED <<heap, section, last, clock, stories, content, label, extracted,
                   jira, issues, run>>

NextExtract == Extract \/ Count

SpecExtract == InitExtract /\ [][NextExtract]_vars

(***************************************************************************)
(* Claims about the section extractor (specification SpecExtract)          *)
(***************************************************************************)
IsHeading(i) == content[i].type = "heading"
Matching == { i \in DOMAIN content : IsHeading(i) /\ hasMatchingText(content[i], label) }
LevelsPresent == \A i \in DOMAIN content : IsHeading(i) => content[i].level > 0

\* section = content[i..j) and remainder = content[0..i) ++ content[j..)  (indices from 1)
SlicedAt(i, j) ==
    /\ extracted.section = [k \in 1..(j - i) |-> content[i + k - 1]]
    /\ extracted.remainingContent =
          [k \in 1..(Len(content) - (j - i)) |->
              IF k < i THEN content[k] ELSE content[k + (j - i)]]

\* j is the first heading after i with level <= the level of heading i, or the end
EndsSection(i, j) ==
    /\ j \in (i + 1)..(Len(content) + 1)
    /\ j <= Len(content) => (IsHeading(j) /\ content[j].level <= content[i].level)
    /\ \A k \in (i + 1)..(j - 1) : ~(IsHeading(k) /\ content[k].level <= content[i].level)

\* C8: extractADFSection returns section = content[i..j) and the rest as remainder, for
\* i the first matching top-level heading and j the first later heading of level <= its
\* level (or the end); without a matching heading the section is empty and the
\* remainder is the whole content; every node lands exactly once, in order.
C8_Slicing ==
    (extracted.called /\ LevelsPresent) =>
        /\ Len(extracted.section) + Len(extracted.remainingContent) = Len(content)
        /\ IF Matching = {}
           THEN extracted.section = <<>> /\ extracted.remainingContent = content
           ELSE \E i \in Matching, j \in 1..(Len(content) + 1) :
                   /\ \A m \in Matching : i <= m
                   /\ EndsSection(i, j)
                   /\ SlicedAt(i, j)

\* a section cut out of the middle: nodes before it, a deeper heading inside it, and a
\* heading of the same or a shallower level ending it
C8_Witness ==
    /\ extracted.called
    /\ LevelsPresent
    /\ Len(extracted.section) >= 2
    /\ \E k \in DOMAIN extracted.section : k > 1 /\ extracted.section[k].type = "heading"
    /\ extracted.remainingContent # <<>>
    /\ extracted.remainingContent[1] # content[Len(content)]
    /\ extracted.remainingContent[Len(extracted.remainingContent)] = content[Len(content)]

RECURSIVE RenderedText(_)
\* the heading's rendered text: the concatenation of its inline text
RenderedText(inline) ==
    IF inline = <<>> THEN <<>> ELSE Head(inline).text \o RenderedText(Tail(inline))

RenderedMatch(i) ==
    /\ IsHeading(i)
    /\ IncludesText(ToLowerCase(RenderedText(content[i].content)), ToLowerCase(label))

\* C9: a top-level heading matches exactly when its rendered text (the concatenation of
\* its inline text) contains the label case-insensitively: extractADFSection selects the
\* first such heading, countADFSectionsByHeading counts them.
C9_HeadingMatchRule ==
    /\ extracted.called =>
          IF \E i \in DOMAIN content : RenderedMatch(i)
          THEN /\ extracted.section # <<>>
               /\ \E i \in DOMAIN content :
                     /\ RenderedMatch(i)
                     /\ \A k \in 1..(i - 1) : ~RenderedMatch(k)
                     /\ Len(extracted.remainingContent) >= i - 1
                     /\ SubSeq(extracted.remainingContent, 1, i - 1) = SubSeq(content, 1, i - 1)
                     /\ extracted.section[1] = content[i]
          ELSE extracted.section = <<>>
    /\ counted # -1 => counted = Cardinality({ i \in DOMAIN content : RenderedMatch(i) })

(***************************************************************************)
(* The write-next-story workflow: executeWriteNextStory and its steps      *)
(***************************************************************************)
FigmaUrl == "figma"     \* a URL for which url.includes('figma.com') holds

\* the Figma URLs in link marks of text nodes (the descriptions here hold no inlineCard
\* node and no URL in plain text)
extractFigmaUrlsFromADF(nodes) ==
    { getMarkAttribute(NodeAt(nodes, p), "link") :
        p \in { q \in PathsOf(nodes) : /\ NodeAt(nodes, q).type = "text"
                                       /\ hasMarkType(NodeAt(nodes, q), "link")
                                       /\ getMarkAttribute(NodeAt(nodes, q), "link") = FigmaUrl } }

\* shellStories.find(story => !story.jiraUrl): its index, 0 for undefined
\* a selection that takes the last record without jiraUrl
findLastUnwrittenStory(shellStories) ==
    LET unwritten == { i \in DOMAIN shellStories : shellStories[i].jiraUrl = "" }
    IN  IF unwritten = {} THEN 0 ELSE CHOOSE i \in unwritten : \A j \in unwritten : j <= i

findNextUnwrittenStory(shellStories) ==
    LET unwritten == { i \in DOMAIN shellStories : shellStories[i].jiraUrl = "" }
    IN  IF unwritten = {} THEN 0 ELSE MinOf(unwritten)

\* the while loop of validateDependencies: "" when it ends, else the Error thrown
RECURSIVE ValidateScan(_, _, _)
ValidateScan(allStories, toCheck, visited) ==
    IF toCheck = <<>> THEN ""
    ELSE LET depId == Head(toCheck)
             found == { i \in DOMAIN allStories : allStories[i].id = depId }
         IN  IF depId \in visited THEN ValidateScan(allStories, Tail(toCheck), visited)
             ELSE IF found = {} THEN "Dependency Not Found"
             ELSE IF allStories[MinOf(found)].jiraUrl = "" THEN "Dependency Not Yet Written"
             ELSE ValidateScan(allStories,
                               Tail(toCheck) \o allStories[MinOf(found)].dependencies,
                               visited \cup {depId})

\* a validation that looks at the story's own dependencies only
validateDirectDependencies(story, allStories) ==
    IF \E d \in Range(story.dependencies) : \A i \in DOMAIN allStories : allStories[i].id # d
    THEN "Dependency Not Found"
    ELSE IF \E d \in Range(story.dependencies) : \E i \in DOMAIN allStories :
                allStories[i].id = d /\ allStories[i].jiraUrl = ""
    THEN "Dependency Not Yet Written"
    ELSE ""

validateDependencies(story, allStories) == ValidateScan(allStories, story.dependencies, {})

\* `https://bitovi.atlassian.net/browse/${createdIssue.key}` for the keys 1, 2, ...
IssueUrls == <<"u1", "u2", "u3", "u4", "u5">>

\* epic descriptions
FigmaParagraph == Block("paragraph", <<Text(<<"f">>, <<Link(FigmaUrl)>>)>>)
DependsOn(ids) == Block("bulletList",
    << Block("listItem", << Block("paragraph", <<Text(<<DepsTag, Space>> \o ids, <<>>)>>) >>) >>)
Story1 == Block("listItem",
    << Block("paragraph", << Text(St1, <<Code>>), Text(<<Space>>, <<>>), Text(<<"L">>, <<Strong>>),
                             Text(<<Space, Glyph, Space, "d">>, <<>>) >>) >>)
Story1Written == Block("listItem",
    << Block("paragraph", << Text(St1, <<Code>>), Text(<<Space>>, <<Link("u0")>>),
                             Text(<<"L">>, <<Strong, Link("u0")>>),
                             Text(<<Space, Glyph, Space, "d">>, <<>>),
                             Text(<<Space>>, <<>>), Text(<<"(", "T0", ")">>, <<Em>>) >>) >>)
Story1Plain == Block("listItem",
    << Block("paragraph", << Text(St1, <<Code>>), Text(<<"L", Space, Glyph, Space, "d">>, <<>>) >>) >>)
Story2 == Block("listItem",
    << Block("paragraph", << Text(St2, <<Code>>), Text(<<Space>>, <<>>), Text(<<"M">>, <<Strong>>),
                             Text(<<Space, Glyph, Space, "f">>, <<>>), HardBreak,
                             Text(<<"g">>, <<>>) >>),
       DependsOn(St1) >>)
Story9 == Block("listItem",
    << Block("paragraph", << Text(St9, <<Code>>), Text(<<Space>>, <<>>), Text(<<"N">>, <<Strong>>),
                             Text(<<Space, Glyph, Space, "h">>, <<>>) >>),
       DependsOn(<<"None">>), DependsOn(St2 \o <<Comma, Space>> \o <<"s", "t", "3">>) >>)
Story2Written == Block("listItem",
    << Block("paragraph", << Text(St2, <<Code>>), Text(<<Space>>, <<Link("u0")>>),
                             Text(<<"M">>, <<Strong, Link("u0")>>),
                             Text(<<Space, Glyph, Space, "f">>, <<>>),
                             Text(<<Space>>, <<>>), Text(<<"(", "T0", ")">>, <<Em>>) >>),
       DependsOn(St1) >>)
Story9OnStory2 == Block("listItem",
    << Block("paragraph", << Text(St9, <<Code>>), Text(<<Space>>, <<>>), Text(<<"N">>, <<Strong>>),
                             Text(<<Space, Glyph, Space, "h">>, <<>>) >>),
       DependsOn(St2) >>)
NoIdStory == Block("listItem", << Block("paragraph", << Text(<<"L", Space, Glyph, Space, "d">>, <<>>) >>) >>)

StoryLists ==
    { Block("bulletList", items) :
        items \in { <<Story1, Story2>>, <<Story1Written, Story2>>, <<Story1Plain, Story2>>,
                    <<Story2, Story1>>, <<Story1Written, Story9>>, <<Story1Written>>,
                    <<Story1, NoIdStory>>, <<Story9OnStory2, Story2Written, Story1>>,
                    <<Story9OnStory2, Story2Written, Story1Written>>,
                    <<Story9OnStory2, Story2Written>> } }

EpicTails ==
    { <<>>, <<OtherHeading, StParagraph>>, <<DeepHeading, UnknownNode>>,
      <<StPlain, Block("bulletList", <<Story2>>)>>,
      <<StSplit, Block("bulletList", <<Story2>>)>> }

EpicContents ==
    { pre \o sec \o tail :
        pre \in { <<FigmaParagraph>>, <<StParagraph>> },
        sec \in { <<StPlain, l>> : l \in StoryLists } \cup { <<>>, <<StPlain>> },
        tail \in EpicTails }

Epics ==
    { [projectKey |-> TRUE, hasDescription |-> TRUE, content |-> c] : c \in EpicContents }
    \cup { [projectKey |-> FALSE, hasDescription |-> TRUE, content |-> <<FigmaParagraph>>],
           [projectKey |-> TRUE, hasDescription |-> FALSE, content |-> <<>>] }

InitFlow ==
    /\ jira \in Epics
    /\ issues = {}
    /\ run = NoRun
    /\ clock = 0
    /\ content = <<>>
    /\ label = <<>>
    /\ counted = -1
    /\ extracted = NotExtracted
    /\ stories = NotParsed
    /\ heap = (0 :> <<>>)
    /\ section = 0
    /\ last = NoCall

Fail(message) == [run EXCEPT !.pc = "failed", !.error = message]

\* an error that says nothing of the issue created
FailUnnamed(message, key) == Fail(message)

\* the errors of updateEpicWithCompletion: their text states createdIssue.key
FailCreated(message, key) == [Fail(message) EXCEPT !.errorKey = key]

\* setupFigmaScreens, as far as the epic goes: fetch, checks, count guard, extraction
SetupFigmaScreens ==
    /\ run.pc = "idle"
    /\ \E jiraOk \in BOOLEAN, figmaOk \in BOOLEAN :
          IF ~jiraOk
          THEN run' = Fail("Fetch epic") /\ UNCHANGED <<content, counted, extracted>>
          ELSE IF ~jira.projectKey
          THEN run' = Fail("no project key") /\ UNCHANGED <<content, counted, extracted>>
          ELSE IF ~jira.hasDescription
          THEN run' = Fail("no description") /\ UNCHANGED <<content, counted, extracted>>
          ELSE IF extractFigmaUrlsFromADF(jira.content) = {}
          THEN run' = Fail("No Figma URLs") /\ content' = jira.content
               /\ UNCHANGED <<counted, extracted>>
          ELSE /\ content' = jira.content
               /\ counted' = countADFSectionsByHeading(jira.content, <<"s", "t">>)
               /\ IF counted' > 1
                  THEN run' = Fail("duplicate sections") /\ UNCHANGED extracted
                  ELSE /\ \E r \in { extractADFSection(jira.content, <<"S", "T">>) } :
                             extracted' = [called |-> TRUE, section |-> r.section,
                                           remainingContent |-> r.remainingContent]
                       /\ run' = IF figmaOk THEN [run EXCEPT !.pc = "setup"]
                                 ELSE Fail("Figma metadata")
    /\ UNCHANGED <<heap, section, last, clock, stories, label, jira, issues>>

ExtractShellStoriesFromSetup ==
    /\ run.pc = "setup"
    /\ \E r \in { parseShellStoriesFromAdf(extracted.section) } :
          /\ stories' = r
          /\ run' = IF r.error # "" THEN Fail(r.error)
                    ELSE IF Len(r.stories) = 0 THEN Fail("Shell Stories Section Missing or Empty")
                    ELSE [run EXCEPT !.pc = "parsed"]
    /\ UNCHANGED <<heap, section, last, clock, content, label, extracted, counted, jira, issues>>

FindNextUnwrittenStory ==
    /\ run.pc = "parsed"
    /\ run' = IF findNextUnwrittenStory(stories.stories) = 0
              THEN [run EXCEPT !.pc = "complete"]
              ELSE [run EXCEPT !.pc = "selected",
                               !.nextStory = findNextUnwrittenStory(stories.stories)]
    /\ UNCHANGED <<heap, section, last, clock, stories, content, label, extracted, counted,
                   jira, issues>>

ValidateDependencies ==
    /\ run.pc = "selected"
    /\ \E verdict \in { validateDependencies(stories.stories[run.nextStory], stories.stories) } :
          run' = IF verdict = "" THEN [run EXCEPT !.pc = "validated"] ELSE Fail(verdict)
    /\ UNCHANGED <<heap, section, last, clock, stories, content, label, extracted, counted,
                   jira, issues>>

GenerateStoryContent ==
    /\ run.pc = "validated"
    /\ \E ok \in BOOLEAN :
          run' = IF ok THEN [run EXCEPT !.pc = "generated"] ELSE Fail("generation failed")
    /\ UNCHANGED <<heap, section, last, clock, stories, content, label, extracted, counted,
                   jira, issues>>

\* the issue's Blocks links: the keys' URLs of the story's written dependencies
BlockedBy(story, allStories) ==
    { allStories[i].jiraUrl :
        i \in { k \in DOMAIN allStories : /\ allStories[k].id \in Range(story.dependencies)
                                          /\ allStories[k].jiraUrl # "" } }

\* the loop over story.dependencies: one POST per dependency that has a Jira URL, in
\* order; failed holds the URLs whose link response is not ok
LinkPosts(story, allStories, failed) ==
    LET linkable == SelectSeq(story.dependencies,
                        LAMBDA d : \E i \in DOMAIN allStories :
                                      allStories[i].id = d /\ allStories[i].jiraUrl # "")
        urlOf(d) == allStories[MinOf({ i \in DOMAIN allStories : allStories[i].id = d })].jiraUrl
    IN  [k \in 1..Len(linkable) |->
            IF urlOf(linkable[k]) \in failed THEN "POST issueLink failed" ELSE "POST issueLink"]

\* a loop that throws at the first link response that is not ok
StopOnFailedLink(created, posts) ==
    IF \E k \in DOMAIN posts : posts[k] = "POST issueLink failed"
    THEN [created EXCEPT !.pc = "failed", !.error = "Failed to create blocker link",
                         !.sent = @ \o posts]
    ELSE [created EXCEPT !.sent = @ \o posts]

\* the run after the loop: a link response that is not ok is logged, the loop goes on
AfterBlockerLinks(created, posts) == [created EXCEPT !.sent = @ \o posts]

\* prepared: the content converts to valid ADF, the metadata is fetched and names a
\* Story issue type; ok: the response to the POST of the issue
CreateJiraIssue ==
    /\ run.pc = "generated"
    /\ \E prepared \in BOOLEAN, ok \in BOOLEAN,
          failed \in SUBSET BlockedBy(stories.stories[run.nextStory], stories.stories) :
          IF ~prepared
          THEN /\ run' = Fail("Failed to prepare the Jira issue")
               /\ UNCHANGED issues
          ELSE IF ok /\ Cardinality(issues) < MaxIssues
          THEN /\ issues' = issues \cup
                     { [key |-> Cardinality(issues) + 1,
                        summary |-> stories.stories[run.nextStory].title,
                        blockedBy |-> BlockedBy(stories.stories[run.nextStory], stories.stories)
                                      \ failed] }
               /\ run' = AfterBlockerLinks(
                             [run EXCEPT !.pc = "created",
                                         !.createdIssue = Cardinality(issues) + 1,
                                         !.sent = Append(@, "POST issue")],
                             LinkPosts(stories.stories[run.nextStory], stories.stories, failed))
          ELSE /\ run' = [Fail("Failed to Create Jira Issue")
                             EXCEPT !.sent = Append(@, "POST issue")]
               /\ UNCHANGED issues
    /\ UNCHANGED <<heap, section, last, clock, stories, content, label, extracted, counted, jira>>

UpdateEpicWithCompletion ==
    /\ run.pc = "created"
    /\ \E ok \in BOOLEAN :
       \E r \in { addCompletionMarkerToShellStory((0 :> extracted.section), 0,
                      stories.stories[run.nextStory].id, IssueUrls[run.createdIssue], clock, 1) } :
          /\ heap' = [g \in {0} \cup ({r.ref} \ {-1}) |-> r.heap[g]]
          /\ section' = IF r.threw THEN 0 ELSE r.ref
          /\ last' = [outcome |-> IF r.threw THEN "threw" ELSE "returned",
                      id |-> stories.stories[run.nextStory].id,
                      url |-> IssueUrls[run.createdIssue], now |-> clock, input |-> 0,
                      snapshot |-> extracted.section, errId |-> r.errId, result |-> r.ref]
          /\ IF r.threw
             THEN /\ run' = FailCreated("created, but failed to update the epic",
                                        run.createdIssue)
                  /\ UNCHANGED jira
             ELSE IF ok
             THEN /\ jira' = [jira EXCEPT !.content = extracted.remainingContent \o r.heap[r.ref]]
                  /\ run' = [run EXCEPT !.pc = "done", !.put = TRUE,
                                        !.sent = Append(@, "PUT epic")]
             ELSE /\ run' = [FailCreated("Failed to Update Epic", run.createdIssue)
                                EXCEPT !.put = TRUE, !.sent = Append(@, "PUT epic")]
                  /\ UNCHANGED jira
    /\ UNCHANGED <<clock, stories, content, label, extracted, counted, issues>>

\* the invocation is over; the tool can be invoked again
Return ==
    /\ run.pc \in {"done", "complete", "failed"}
    /\ run' = NoRun
    /\ content' = <<>>
    /\ counted' = -1
    /\ extracted' = NotExtracted
    /\ stories' = NotParsed
    /\ heap' = (0 :> <<>>)
    /\ section' = 0
    /\ last' = NoCall
    /\ UNCHANGED <<clock, label, jira, issues>>

NextFlow ==
    \/ SetupFigmaScreens
    \/ ExtractShellStoriesFromSetup
    \/ FindNextUnwrittenStory
    \/ ValidateDependencies
    \/ GenerateStoryContent
    \/ CreateJiraIssue
    \/ UpdateEpicWithCompletion
    \/ Return
    \/ Tick

SpecFlow == InitFlow /\ [][NextFlow]_vars

(***************************************************************************)
(* Claims about the workflow (specification SpecFlow)                      *)
(***************************************************************************)
\* the top-level headings of a description that read "Shell Stories"
ShellStoriesHeadings(nodes) ==
    { i \in DOMAIN nodes :
        /\ nodes[i].type = "heading"
        /\ IncludesText(ToLowerCase(RenderedText(nodes[i].content)), <<"s", "t">>) }

\* C10: duplicate-section guard: the count setupFigmaScreens obtains is the number of
\* top-level Shell Stories headings of the description, a count above 1 aborts the run
\* before extractADFSection is called, and so no run parses, marks or writes back a
\* description with more than one Shell Stories heading.
C10_DuplicateGuard ==
    /\ counted # -1 => counted = Cardinality(ShellStoriesHeadings(content))
    /\ counted > 1 => (run.pc = "failed" /\ ~extracted.called)
    /\ (stories # NotParsed \/ last # NoCall \/ run.pc = "done")
          => Cardinality(ShellStoriesHeadings(content)) <= 1

(***************************************************************************)
(* The parser on its own: parseShellStoriesFromAdf called on a section     *)
(***************************************************************************)
Plain(text) == Text(text, <<>>)
Story(inline, rest) == Block("listItem", <<Block("paragraph", inline)>> \o rest)
WithId(idText) ==
    Story(<< Text(idText, <<Code>>), Plain(<<Space>>), Text(<<"L">>, <<Strong>>),
             Plain(<<Space, Glyph, Space, "d">>) >>, <<>>)

EmptyItem == Block("listItem", <<>>)                               \* content: []
NoContentItem == Node("listItem", <<>>, <<>>, 0, FALSE, <<>>)      \* no content property
NoParagraphItem == Block("listItem", <<Block("bulletList", <<>>)>>)
NoTextItem == Story(<<Node("text", <<>>, <<>>, 0, FALSE, <<>>)>>, <<>>)
UncodedItem == Story(<< Plain(St1), Plain(<<Space, "L", Space, Glyph, Space, "d">>) >>, <<>>)

MalformedItems ==
    { Story(<< Text(St1, <<Code>>) >>, <<>>),
      Story(<< Text(St1, <<Code>>), Plain(<<Space>>), Text(<<"L">>, <<Strong>>) >>, <<>>),
      Story(<< Text(St1, <<Code>>), Plain(<<Space, Glyph, Space, "d">>) >>, <<>>),
      Story(<< Text(St1, <<Code>>), Plain(<<Space>>), Text(<<"L">>, <<Strong>>),
               Plain(<<Space, Glyph, Space>>) >>, <<>>),
      Story(<< Text(St1, <<Code>>), Plain(<<"L">>), Plain(<<Glyph>>),
               Text(<<"(", "T0", ")">>, <<Em>>) >>, <<>>) }

IdTexts ==
    { St1, <<"s", "t", "0", "1">>, <<"a", "b", "1", "2">>, <<"s", "1">>, <<"s", "t">>,
      <<"S", "T", "1">>, <<"s", "t", "1", "x">>, <<"1", "s", "t">>, <<Space, "s", "t", "1">> }

\* a story whose nested list holds an item that reads like a story
NestedStory ==
    Story(<< Text(St2, <<Code>>), Plain(<<Space, "M", Space, Glyph, Space, "f">>) >>,
          << Block("bulletList", <<WithId(St9)>>) >>)
\* a paragraph led by a code-marked text that is no identifier, then the identifier
LateId ==
    Story(<< Text(<<"x">>, <<Code>>), Text(St2, <<Code>>),
             Plain(<<Space, "M", Space, Glyph, Space, "f">>) >>, <<>>)

\* first paragraphs that split into title and description in different ways
SplitItems ==
    { Story(<< Text(St1, <<Code>>), Plain(<<"L">>), Text(<<"o">>, <<Strong>>),
               Plain(<<"g", Space, Glyph, "d">>), Plain(<<"e">>), HardBreak, Plain(<<"h">>),
               Plain(<<Space>>), Text(<<"(", "T0", ")">>, <<Em>>) >>, <<>>),
      Story(<< Text(St1, <<Code>>), Plain(<<Space, "L", Space>>),
               Plain(<<Glyph, Space, "d", Space>>), Text(<<"i">>, <<Em>>),
               Plain(<<Space, "e">>) >>, <<>>),
      Story(<< Text(St1, <<Code>>), Plain(<<"L", Glyph, "d", Glyph, "e">>) >>, <<>>),
      Story(<< Text(St1, <<Code>>), Plain(<<"L", Glyph, "d">>), HardBreak,
               Plain(<<"e", Glyph, "h">>) >>, <<>>),
      Story(<< Text(St1, <<Code>>), Plain(<<"L", Glyph, "d">>), HardBreak >>, <<>>) }

\* a story with the given nested list items
WithNested(nested) ==
    Story(<< Text(St2, <<Code>>), Plain(<<Space, "M", Space, Glyph, Space, "f">>) >>,
          << Block("bulletList", nested) >>)
NestedItem(inline) == Block("listItem", << Block("paragraph", inline) >>)

\* nested items that spell their dependencies in different ways
DependencyItems ==
    { WithNested(<< NestedItem(<< Plain(<<DepsTag, Space>> \o St1 \o <<Comma>>), HardBreak,
                                  Plain(St2) >>),
                    NestedItem(<< Plain(<<DepsTag, Space, "NONE">>) >>),
                    NestedItem(<< Plain(<<DepsTag>> \o St9 \o <<Comma, Comma, Space, Comma>>
                                        \o St1 \o <<Space>>) >>),
                    NestedItem(<< Plain(St9) >>),
                    NestedItem(<< Plain(<<"x">>), Plain(<<DepsTag, Space>> \o St9) >>),
                    NestedItem(<< Text(<<DepsTag>>, <<Strong>>), Plain(<<Space>> \o St2) >>) >>),
      WithNested(<< NestedItem(<< Plain(<<"x", Space, DepsTag, Space>> \o St1) >>) >>),
      WithNested(<< NestedItem(<< HardBreak, Plain(<<DepsTag, Space>> \o St1) >>) >>) }

ParseItems ==
    { EmptyItem, NoContentItem, NoParagraphItem, NoTextItem, UncodedItem, NestedStory, LateId,
      Story2, Story9, Story1Written, Story1Plain }
    \cup MalformedItems \cup { WithId(t) : t \in IdTexts } \cup SplitItems \cup DependencyItems

ParseTails ==
    { <<>>, <<UnknownNode, Block("bulletList", <<Story2>>)>>,
      <<Block("orderedList", <<WithId(St9)>>), Node("bulletList", <<>>, <<>>, 0, FALSE, <<>>)>> }

ParseSections ==
    { <<ShellStoriesHeading, Block("bulletList", items)>> \o tail :
        items \in SeqsUpTo(ParseItems, MaxItems), tail \in ParseTails }

InitParse ==
    /\ \E s \in ParseSections : heap = (0 :> s)
    /\ section = 0
    /\ last = NoCall
    /\ clock = 0
    /\ stories = NotParsed
    /\ Idle

\* parseShellStoriesFromAdf(section)
ParseSection ==
    /\ stories = NotParsed
    /\ stories' = parseShellStoriesFromAdf(heap[section])
    /\ UNCHANGED <<heap, section, last, clock, content, label, extracted, counted,
                   jira, issues, run>>

NextParse == ParseSection

SpecParse == InitParse /\ [][NextParse]_vars

(***************************************************************************)
(* Claims about the parser (specification SpecParse)                       *)
(***************************************************************************)
Parsed == stories # NotParsed
Input == heap[section]

\* the list items of the section's top-level bullet lists, in document order
RECURSIVE TopItems(_)
TopItems(nodes) ==
    IF nodes = <<>> THEN <<>>
    ELSE (IF Head(nodes).type = "bulletList"
          THEN SelectSeq(Head(nodes).content, LAMBDA n : n.type = "listItem")
          ELSE <<>>) \o TopItems(Tail(nodes))

\* the code-marked text nodes of the item's first paragraph, in order
CodeTexts(item) ==
    IF FirstParagraphIndex(item.content) = 0 THEN <<>>
    ELSE SelectSeq(item.content[FirstParagraphIndex(item.content)].content,
                   LAMBDA n : n.type = "text" /\ hasMarkType(n, "code"))

\* C11: fail-fast on a missing identifier: if a list item of a top-level bullet list has
\* no code-marked identifier in its first paragraph (an empty item, an item without a
\* paragraph or without content included), the parse throws 'Shell story missing ID'
\* (unless an earlier item's error came first); the item is never silently skipped.
C11_MissingIdFailsFast ==
    (Parsed /\ \E i \in DOMAIN TopItems(Input) : CodeTexts(TopItems(Input)[i]) = <<>>)
    => \/ stories.error = "missing ID"
       \/ stories.error # "" /\ stories.errId # NullId

\* the inline nodes of the item's first paragraph (none if it has no paragraph)
FirstInline(item) ==
    IF FirstParagraphIndex(item.content) = 0 THEN <<>>
    ELSE item.content[FirstParagraphIndex(item.content)].content

\* the item's identifier: the first code-marked text of the form st<digits>, else NullId
IdentifierOf(item) ==
    LET ids == SelectSeq(CodeTexts(item), LAMBDA n : MatchesStoryId(n.text))
    IN  IF ids = <<>> THEN NullId ELSE ids[1].text

\* positions in the first paragraph: the first code-marked text, and the first text
\* (not code-marked) that holds the separator glyph; 0 if there is none
IdPosition(c) ==
    LET at == { j \in DOMAIN c : c[j].type = "text" /\ hasMarkType(c[j], "code") }
    IN  IF at = {} THEN 0 ELSE MinOf(at)
SeparatorPosition(c) ==
    LET at == { j \in DOMAIN c : /\ c[j].type = "text"
                                 /\ ~hasMarkType(c[j], "code")
                                 /\ Includes(c[j].text, Glyph) }
    IN  IF at = {} THEN 0 ELSE MinOf(at)

IsBlank(text) == \A k \in DOMAIN text : IsSpace(text[k])

\* no text but white space between the identifier and the glyph
LacksTitle(c) ==
    /\ \A j \in DOMAIN c :
          (j > IdPosition(c) /\ j < SeparatorPosition(c) /\ c[j].type = "text"
             /\ ~hasMarkType(c[j], "code")) => IsBlank(c[j].text)
    /\ IsBlank(SplitBefore(c[SeparatorPosition(c)].text))

\* no text but white space after the glyph, the emphasis-marked trailer left aside
LacksDescription(c) ==
    /\ IsBlank(SplitAfter(c[SeparatorPosition(c)].text))
    /\ \A j \in DOMAIN c :
          (j > SeparatorPosition(c) /\ c[j].type = "text" /\ ~hasMarkType(c[j], "em"))
             => IsBlank(c[j].text)

\* an item with an identifier that lacks the separator, the title or the description
Malformed(item) ==
    /\ IdentifierOf(item) # NullId
    /\ \/ SeparatorPosition(FirstInline(item)) = 0
       \/ LacksTitle(FirstInline(item))
       \/ LacksDescription(FirstInline(item))

IsLowerLetter(c) ==
    c \in { "a", "b", "c", "d", "e", "f", "g", "h", "i", "j", "k", "l", "m",
            "n", "o", "p", "q", "r", "s", "t", "u", "v", "w", "x", "y", "z" }

\* ^[a-z]+\d+$
MatchesLettersDigits(text) ==
    \E k \in 1..(Len(text) - 1) :
        /\ \A i \in 1..k : IsLowerLetter(text[i])
        /\ \A i \in (k + 1)..Len(text) : IsDigit(text[i])

\* the first code-marked text of the first paragraph that matches ^[a-z]+\d+$
LettersDigitsId(item) ==
    LET ids == SelectSeq(CodeTexts(item), LAMBDA n : MatchesLettersDigits(n.text))
    IN  IF ids = <<>> THEN NullId ELSE ids[1].text

\* C13: identifier recognition: a code-marked text of the first paragraph becomes the
\* record id exactly when it matches ^[a-z]+\d+$: items that all carry such a text are
\* never refused for a missing ID, an item without one is never given a record, and the
\* records carry those texts as ids.
C13_IdentifierRule ==
    (Parsed /\ \A i \in DOMAIN TopItems(Input) : TopItems(Input)[i].hasContent)
    => /\ (\A i \in DOMAIN TopItems(Input) : LettersDigitsId(TopItems(Input)[i]) # NullId)
             => stories.error # "missing ID"
       /\ (\E i \in DOMAIN TopItems(Input) : LettersDigitsId(TopItems(Input)[i]) = NullId)
             => stories.error # ""
       /\ stories.error = ""
             => /\ Len(stories.stories) = Len(TopItems(Input))
                /\ \A i \in DOMAIN stories.stories :
                      stories.stories[i].id = LettersDigitsId(TopItems(Input)[i])

RemoveSpaces(text) == SelectSeq(text, LAMBDA ch : ch # Space)
\* a text without its blanks and without white space at either end
Essence(text) == Trim(RemoveSpaces(text))

\* the paragraph is: identifier, text segments, the separator segment, then text
\* segments and hard breaks
SplitShape(c) ==
    /\ Len(c) >= 2
    /\ c[1].type = "text" /\ hasMarkType(c[1], "code") /\ MatchesStoryId(c[1].text)
    /\ SeparatorPosition(c) > 1
    /\ \A j \in 2..Len(c) : c[j].type \in {"text", "hardBreak"} /\ ~hasMarkType(c[j], "code")

\* the emphasis-marked timestamp trailer: an emphasis-marked text ending the paragraph
IsTrailer(c, j) == j = Len(c) /\ c[j].type = "text" /\ hasMarkType(c[j], "em")

\* the text after the id up to the glyph
TitleText(c) ==
    Flatten([j \in 1..(SeparatorPosition(c) - 1) |-> IF j = 1 THEN <<>> ELSE c[j].text])
    \o SubSeq(c[SeparatorPosition(c)].text, 1, IndexOf(c[SeparatorPosition(c)].text, Glyph) - 1)

\* the text after the glyph and the segments that follow, a hard break as a newline
DescriptionText(c) ==
    SubSeq(c[SeparatorPosition(c)].text, IndexOf(c[SeparatorPosition(c)].text, Glyph) + 1,
           Len(c[SeparatorPosition(c)].text))
    \o Flatten([j \in 1..Len(c) |->
                  IF j <= SeparatorPosition(c) \/ IsTrailer(c, j) THEN <<>>
                  ELSE IF c[j].type = "hardBreak" THEN <<Newline>>
                  ELSE c[j].text])

\* C14: title/description split: for an item whose first paragraph is id, text segments,
\* a segment with the separator glyph and further segments, the title is the text after
\* the id up to the glyph and the description the text after the glyph with the
\* following segments, the emphasis-marked timestamp trailer left out and each hardBreak
\* a newline (white space between and around segments aside).
C14_TitleDescriptionSplit ==
    (Parsed /\ stories.error = "" /\ Len(stories.stories) = Len(TopItems(Input)))
    => \A i \in DOMAIN stories.stories :
          SplitShape(FirstInline(TopItems(Input)[i]))
          => /\ Essence(stories.stories[i].title) = Essence(TitleText(FirstInline(TopItems(Input)[i])))
             /\ Essence(stories.stories[i].description)
                   = Essence(DescriptionText(FirstInline(TopItems(Input)[i])))

\* C15: document order: a successful parse returns exactly one record per list item of
\* the section's top-level bullet lists, record k being the record of the k-th such
\* item; items of nested lists and of other lists produce no record.
C15_DocumentOrder ==
    (Parsed /\ stories.error = "")
    => /\ Len(stories.stories) = Len(TopItems(Input))
       /\ \A k \in DOMAIN stories.stories :
             k <= Len(TopItems(Input))
             => stories.stories[k] = parseShellStoryFromListItem(TopItems(Input)[k]).story

\* the paragraphs of the items of the lists nested in a top-level item
NestedItemParagraphs(item) ==
    LET lists == SelectSeq(item.content, LAMBDA n : n.type = "bulletList")
        items == Flatten([i \in DOMAIN lists |->
                            SelectSeq(lists[i].content, LAMBDA n : n.type = "listItem")])
    IN  Flatten([i \in DOMAIN items |->
                    SelectSeq(items[i].content, LAMBDA n : n.type = "paragraph")])

\* the first text segment of a paragraph (0: none)
FirstTextIndex(c) ==
    IF \E j \in DOMAIN c : c[j].type = "text"
    THEN MinOf({ j \in DOMAIN c : c[j].type = "text" }) ELSE 0

\* the paragraph's text from its first text segment on, a hard break as a newline
TextFrom(c, j) ==
    Flatten([k \in DOMAIN c |-> IF k < j THEN <<>>
                                ELSE IF c[k].type = "hardBreak" THEN <<Newline>>
                                ELSE IF c[k].type = "text" THEN c[k].text ELSE <<>>])

NonEmptyTrimmed(tokens) ==
    SelectSeq([i \in DOMAIN tokens |-> Trim(tokens[i])], LAMBDA t : t # <<>>)

\* the dependencies a nested paragraph states: none unless its first text segment
\* begins with the label; otherwise the tokens after the label
StatedDependencies(paragraph) ==
    LET c == paragraph.content
        j == FirstTextIndex(c)
    IN  IF j = 0 \/ c[j].text = <<>> THEN <<>>
        ELSE IF c[j].text[1] # DepsTag THEN <<>>
        ELSE IF ToLowerCase(Trim(Tail(TextFrom(c, j)))) = <<"none">> THEN <<>>
        ELSE NonEmptyTrimmed(SplitComma(Tail(TextFrom(c, j))))

DependenciesStated(item) ==
    Flatten([i \in DOMAIN NestedItemParagraphs(item) |->
                StatedDependencies(NestedItemParagraphs(item)[i])])

\* C16: dependency parsing: a nested list item whose first text segment begins with
\* 'DEPENDENCIES:' contributes the comma-separated tokens after the label, trimmed,
\* non-empty, in order, hard breaks between tokens tolerated; 'none' in any letter case
\* contributes nothing, and so does a nested item without the leading label.
C16_DependencyParsing ==
    (Parsed /\ stories.error = "" /\ Len(stories.stories) = Len(TopItems(Input)))
    => \A k \in DOMAIN stories.stories :
          stories.stories[k].dependencies = DependenciesStated(TopItems(Input)[k])

(***************************************************************************)
(* Claims about a run of write-next-story (specification SpecFlow)         *)
(***************************************************************************)
Roster == stories.stories
AllWritten == \A i \in DOMAIN Roster : Roster[i].jiraUrl # ""
IsFirstUnwritten(k) ==
    /\ k \in DOMAIN Roster
    /\ Roster[k].jiraUrl = ""
    /\ \A j \in 1..(k - 1) : Roster[j].jiraUrl # ""
\* the run has selected a story and not yet ended
Working == run.pc \in {"selected", "validated", "generated", "created"}

\* C17: next-story selection: a run acts on the first record without jiraUrl; it returns
\* the complete result exactly when every record has a jiraUrl, and such a run creates no
\* issue and does not update the epic.
C17_NextStorySelection ==
    [][ /\ (run.pc = "parsed" /\ run'.pc # "parsed")
           => /\ (run'.pc = "complete") <=> AllWritten
              /\ (run'.pc # "complete") => (run'.pc = "selected" /\ IsFirstUnwritten(run'.nextStory))
        /\ (Working /\ run'.pc # "idle")
           => /\ run'.nextStory = run.nextStory /\ stories' = stories
              /\ IsFirstUnwritten(run.nextStory)
              /\ \A i \in issues' \ issues : i.summary = Roster[run.nextStory].title
        /\ (run.pc = "complete" \/ run'.pc = "complete")
           => (issues' = issues /\ jira' = jira /\ run'.createdIssue = 0) ]_vars

\* a run returns the complete result after an earlier run has written the last story
C17_Witness == run.pc = "complete" /\ issues # {} /\ Len(Roster) = 2

\* the dependencies the records with id d state
DependenciesOfId(d) == UNION { Range(Roster[i].dependencies) : i \in { k \in DOMAIN Roster : Roster[k].id = d } }

RECURSIVE DependencyClosure(_)
DependencyClosure(ids) ==
    IF ids \cup UNION { DependenciesOfId(d) : d \in ids } = ids THEN ids
    ELSE DependencyClosure(ids \cup UNION { DependenciesOfId(d) : d \in ids })

\* the ids reachable from the selected story through dependencies
ReachableIds == DependencyClosure(Range(Roster[run.nextStory].dependencies))
Exists(d) == \E i \in DOMAIN Roster : Roster[i].id = d
Written(d) == \E i \in DOMAIN Roster : Roster[i].id = d /\ Roster[i].jiraUrl # ""
DependencyErrors == {"Dependency Not Found", "Dependency Not Yet Written"}

\* C18: dependency gate: validateDependencies succeeds only if every id reachable from
\* the selected story through dependencies exists in the roster and has a jiraUrl;
\* otherwise it throws 'Dependency Not Found' or 'Dependency Not Yet Written', and the
\* run creates no issue and does not update the epic.
C18_DependencyGate ==
    [][ /\ (run.pc = "selected" /\ run'.pc # "selected")
           => /\ (run'.pc = "validated") <=> (\A d \in ReachableIds : Exists(d) /\ Written(d))
              /\ (run'.pc # "validated")
                 => /\ run'.pc = "failed" /\ run'.error \in DependencyErrors
                    /\ (run'.error = "Dependency Not Found")
                       => (\E d \in ReachableIds : ~Exists(d))
                    /\ (run'.error = "Dependency Not Yet Written")
                       => (\E d \in ReachableIds : Exists(d) /\ ~Written(d))
                    /\ run'.createdIssue = 0
        /\ (run.pc \in {"validated", "generated", "created"})
           => (\A d \in ReachableIds : Exists(d) /\ Written(d))
        /\ (issues' # issues \/ jira' # jira)
           => (\A d \in ReachableIds : Exists(d) /\ Written(d))
        /\ (run.error \in DependencyErrors \/ run'.error \in DependencyErrors)
           => (issues' = issues /\ jira' = jira) ]_vars

\* the run failed on a dependency reached only through a written dependency
C18_Witness ==
    /\ run.pc = "failed" /\ run.error = "Dependency Not Yet Written"
    /\ \A d \in Range(Roster[run.nextStory].dependencies) : Written(d)

\* updateEpicWithCompletion called on its own: the setup result of an epic, an issue
\* created, and a story of the caller's choosing
InitUpdate ==
    /\ jira \in { e \in Epics : e.projectKey /\ e.hasDescription
                                /\ countADFSectionsByHeading(e.content, <<"s", "t">>) <= 1 }
    /\ content = jira.content
    /\ counted = countADFSectionsByHeading(jira.content, <<"s", "t">>)
    /\ \E r \in { extractADFSection(jira.content, <<"S", "T">>) } :
          extracted = [called |-> TRUE, section |-> r.section,
                       remainingContent |-> r.remainingContent]
    /\ \E id \in RequestIds :
          stories = [error |-> "", errId |-> NullId,
                     stories |-> << [NoStory EXCEPT !.id = id, !.title = <<"L">>,
                                                    !.description = <<"d">>] >>]
    /\ issues = { [key |-> 1, summary |-> <<"L">>, blockedBy |-> {}] }
    /\ run = [NoRun EXCEPT !.pc = "created", !.nextStory = 1, !.createdIssue = 1,
                           !.sent = <<"POST issue">>]
    /\ clock = 0
    /\ label = <<>>
    /\ heap = (0 :> <<>>)
    /\ section = 0
    /\ last = NoCall

SpecUpdate == InitUpdate /\ [][NextFlow]_vars

IssueKeys == { i.key : i \in issues }

\* C20: partial success is surfaced, not rolled back: when the issue was created and
\* then the completion marker cannot be applied or the epic update fails, the run ends
\* with an error that states the created issue's key; the issue is not deleted, and when
\* the marker could not be applied no PUT of the epic description is sent.
C20_PartialSuccess ==
    [][ /\ (run.pc = "created" /\ run'.pc = "failed")
           => /\ run.createdIssue \in IssueKeys
              /\ run'.errorKey = run.createdIssue
              /\ issues' = issues /\ jira' = jira
              /\ (last'.outcome = "threw") => ~run'.put
        /\ issues \subseteq issues'
        /\ (run.pc = "failed" /\ run.errorKey # 0)
           => (run.errorKey \in IssueKeys /\ issues' = issues /\ jira' = jira) ]_vars

\* the issue was created and the marker could not be applied
C20_Witness ==
    /\ run.pc = "failed" /\ last.outcome = "threw"
    /\ run.errorKey \in IssueKeys /\ ~run.put

(***************************************************************************)
(* Repeated runs: every step of a run completes, the tool is invoked again *)
(* after a run has ended, and the services it calls answer in the end      *)
(***************************************************************************)
SetupSucceeds == SetupFigmaScreens /\ run'.pc = "setup"
GenerationSucceeds == GenerateStoryContent /\ run'.pc = "generated"
CreationSucceeds == CreateJiraIssue /\ run'.pc = "created"
UpdateSucceeds == UpdateEpicWithCompletion /\ run'.pc = "done"

\* The parsing step is enabled exactly when the run is at "setup" and always leaves it,
\* so its weak fairness is stated as: the run is not at "setup" for ever.
ParsingCompletes == []<>(run.pc # "setup")

FairRuns ==
    /\ WF_vars(SetupFigmaScreens) /\ ParsingCompletes
    /\ WF_vars(FindNextUnwrittenStory) /\ WF_vars(ValidateDependencies)
    /\ WF_vars(GenerateStoryContent) /\ WF_vars(CreateJiraIssue)
    /\ WF_vars(UpdateEpicWithCompletion) /\ WF_vars(Return)
    /\ SF_vars(SetupSucceeds) /\ SF_vars(GenerationSucceeds)
    /\ SF_vars(CreationSucceeds) /\ SF_vars(UpdateSucceeds)

SpecFlowFair == InitFlow /\ [][NextFlow]_vars /\ FairRuns

RosterIds == {St1, St2, St9}
\* the run has failed because the selected story depends on d, which is not written
BlockedOn(d) ==
    /\ run.pc = "failed" /\ run.error = "Dependency Not Yet Written"
    /\ d \in ReachableIds /\ Exists(d) /\ ~Written(d)
\* a run is writing the story d: its issue is created
Writing(d) == run.pc = "created" /\ Roster[run.nextStory].id = d

\* C19: automatic dependency ordering: after a run has failed because the selected story
\* depends on a story not yet written, repeated runs write that dependency (and so, in
\* the end, every story of a roster whose dependencies all exist).
C19_DependencyWrittenFirst ==
    \A d \in RosterIds : BlockedOn(d) ~> Writing(d)

(***************************************************************************)
(* Further claims about addCompletionMarkerToShellStory (specification     *)
(* Spec)                                                                   *)
(***************************************************************************)
\* the top-level list items of the tree that show the identifier id
ItemsShowing(tree, id) ==
    SelectSeq(TopItems(tree), LAMBDA item : id \in ItemIdentifiers(item))

\* the inline nodes of the first paragraph of the (first) item showing id
TargetContent(tree, id) ==
    LET item == ItemsShowing(tree, id)[1]
    IN  item.content[FirstParagraphIndex(item.content)].content

EmTexts(c) == { j \in DOMAIN c : c[j].type = "text" /\ hasMarkType(c[j], "em") }

\* the paragraph ends with a plain space and one emphasis-marked text, its only one
EndsWithTimestampRun(c) ==
    /\ Len(c) >= 2
    /\ EmTexts(c) = {Len(c)}
    /\ c[Len(c) - 1] = Text(<<Space>>, <<>>)

\* C21: single timestamp run (sections the parser accepts): after any call for an id the
\* target paragraph ends with
\* exactly one emphasis-marked timestamp text preceded by a plain space; a call on a story
\* without a timestamp run adds exactly two inline nodes at the end, and a later call for
\* the same id adds none and only overwrites the text of the trailing timestamp node.
C21_SingleTimestampRun ==
    [][ ( /\ last' # last /\ last'.outcome = "returned"
          /\ parseShellStoriesFromAdf(last'.snapshot).error = "" )
        => LET cin == TargetContent(last'.snapshot, last'.id)
               cout == TargetContent(heap'[last'.result], last'.id)
               stamp == <<"(">> \o ToISOString(last'.now) \o <<")">>
           IN  /\ ItemsShowing(heap'[last'.result], last'.id) # <<>>
               /\ EndsWithTimestampRun(cout)
               /\ cout[Len(cout)].text = stamp
               /\ (~EndsWithTimestampRun(cin))
                  => /\ Len(cout) = Len(cin) + 2
                     /\ \A j \in DOMAIN cin : cout[j].text = cin[j].text
               /\ (Returned /\ last.id = last'.id)
                  => /\ Len(cout) = Len(cin)
                     /\ \A j \in DOMAIN cin :
                           cout[j] = IF j = Len(cin) THEN [cin[j] EXCEPT !.text = stamp]
                                     ELSE cin[j] ]_vars

LinksOf(node) == SelectSeq(node.marks, LAMBDA m : m.type = "link")

\* C22: link mark policy: a call adds a link mark (to its url) only to nodes that had no
\* link mark; no node of the returned tree carries more than one link mark, and a link
\* mark that existed before the call keeps its target.
C22_LinkMarkPolicy ==
    Returned =>
        /\ \A p \in PathsOf(After) : Len(LinksOf(NodeAt(After, p))) <= 1
        /\ \A p \in PathsOf(Before) :
              /\ p \in PathsOf(After)
              /\ LinksOf(NodeAt(Before, p)) # <<>>
                 => LinksOf(NodeAt(After, p)) = LinksOf(NodeAt(Before, p))
              /\ LinksOf(NodeAt(Before, p)) = <<>>
                 => LinksOf(NodeAt(After, p)) \in {<<>>, <<Link(last.url)>>}

\* a call with another url returned for a story whose title already linked elsewhere
C22_Witness ==
    /\ Returned
    /\ \E p \in PathsOf(Before) :
          /\ Len(p) = 4 /\ p[1] = 2 /\ p[2] = 1 /\ p[3] = 1
          /\ LinksOf(NodeAt(Before, p)) # <<>>
          /\ LinksOf(NodeAt(Before, p)) # <<Link(last.url)>>
          /\ LinksOf(NodeAt(Before, p)) # <<Link("u0")>>

\* C23: first paragraph only: the marker changes only the first paragraph of the matched
\* list item; every further paragraph that is a direct child of that item comes back as
\* it was.
C23_FirstParagraphOnly ==
    (Returned /\ ItemsShowing(Before, last.id) # <<>> /\ ItemsShowing(After, last.id) # <<>>)
    => LET iin == ItemsShowing(Before, last.id)[1]
           iout == ItemsShowing(After, last.id)[1]
       IN  /\ Len(iout.content) = Len(iin.content)
           /\ \A j \in DOMAIN iin.content :
                 (iin.content[j].type = "paragraph" /\ j # FirstParagraphIndex(iin.content))
                 => iout.content[j] = iin.content[j]

(***************************************************************************)
(* Specification SpecRace: two invocations of executeWriteNextStory on one *)
(* epic, their awaited steps interleaved.  Each invocation r has its own   *)
(* locals (run[r], content[r], counted[r], extracted[r], stories[r]); the  *)
(* epic (jira) and the issues of the Jira site are shared.                 *)
(***************************************************************************)
Runs == {1, 2}

InitRace ==
    /\ jira \in Epics
    /\ issues = {}
    /\ run = [r \in Runs |-> NoRun]
    /\ content = [r \in Runs |-> <<>>]
    /\ counted = [r \in Runs |-> -1]
    /\ extracted = [r \in Runs |-> NotExtracted]
    /\ stories = [r \in Runs |-> NotParsed]
    /\ clock = 0
    /\ label = <<>>
    /\ heap = (0 :> <<>>)
    /\ section = 0
    /\ last = NoCall

FailRun(r, message) == [run[r] EXCEPT !.pc = "failed", !.error = message]

\* a site that keeps one issue per summary
IssuesOncePerSummary(story, allStories) ==
    IF \E i \in issues : i.summary = story.title THEN issues
    ELSE issues \cup { [key |-> Cardinality(issues) + 1, summary |-> story.title,
                        blockedBy |-> BlockedBy(story, allStories)] }

\* the issues of the site after the POST that creates the story's issue
IssuesAfterCreate(story, allStories) ==
    issues \cup { [key |-> Cardinality(issues) + 1, summary |-> story.title,
                   blockedBy |-> BlockedBy(story, allStories)] }

RaceSetupFigmaScreens(r) ==
    /\ run[r].pc = "idle"
    /\ \E jiraOk \in BOOLEAN, figmaOk \in BOOLEAN :
          IF ~jiraOk
          THEN run' = [run EXCEPT ![r] = FailRun(r, "Fetch epic")]
               /\ UNCHANGED <<content, counted, extracted>>
          ELSE IF ~jira.projectKey
          THEN run' = [run EXCEPT ![r] = FailRun(r, "no project key")]
               /\ UNCHANGED <<content, counted, extracted>>
          ELSE IF ~jira.hasDescription
          THEN run' = [run EXCEPT ![r] = FailRun(r, "no description")]
               /\ UNCHANGED <<content, counted, extracted>>
          ELSE IF extractFigmaUrlsFromADF(jira.content) = {}
          THEN run' = [run EXCEPT ![r] = FailRun(r, "No Figma URLs")]
               /\ content' = [content EXCEPT ![r] = jira.content]
               /\ UNCHANGED <<counted, extracted>>
          ELSE /\ content' = [content EXCEPT ![r] = jira.content]
               /\ counted' = [counted EXCEPT
                                 ![r] = countADFSectionsByHeading(jira.content, <<"s", "t">>)]
               /\ IF counted'[r] > 1
                  THEN run' = [run EXCEPT ![r] = FailRun(r, "duplicate sections")]
                       /\ UNCHANGED extracted
                  ELSE /\ \E x \in { extractADFSection(jira.content, <<"S", "T">>) } :
                             extracted' = [extracted EXCEPT ![r] =
                                              [called |-> TRUE, section |-> x.section,
                                               remainingContent |-> x.remainingContent]]
                       /\ run' = [run EXCEPT ![r] = IF figmaOk THEN [run[r] EXCEPT !.pc = "setup"]
                                                    ELSE FailRun(r, "Figma metadata")]
    /\ UNCHANGED <<heap, section, last, clock, stories, label, jira, issues>>

RaceExtractShellStoriesFromSetup(r) ==
    /\ run[r].pc = "setup"
    /\ \E x \in { parseShellStoriesFromAdf(extracted[r].section) } :
          /\ stories' = [stories EXCEPT ![r] = x]
          /\ run' = [run EXCEPT ![r] =
                        IF x.error # "" THEN FailRun(r, x.error)
                        ELSE IF Len(x.stories) = 0
                        THEN FailRun(r, "Shell Stories Section Missing or Empty")
                        ELSE [run[r] EXCEPT !.pc = "parsed"]]
    /\ UNCHANGED <<heap, section, last, clock, content, label, extracted, counted, jira, issues>>

RaceFindNextUnwrittenStory(r) ==
    /\ run[r].pc = "parsed"
    /\ run' = [run EXCEPT ![r] =
                  IF findNextUnwrittenStory(stories[r].stories) = 0
                  THEN [run[r] EXCEPT !.pc = "complete"]
                  ELSE [run[r] EXCEPT !.pc = "selected",
                                      !.nextStory = findNextUnwrittenStory(stories[r].stories)]]
    /\ UNCHANGED <<heap, section, last, clock, stories, content, label, extracted, counted,
                   jira, issues>>

RaceValidateDependencies(r) ==
    /\ run[r].pc = "selected"
    /\ \E verdict \in { validateDependencies(stories[r].stories[run[r].nextStory],
                                             stories[r].stories) } :
          run' = [run EXCEPT ![r] = IF verdict = "" THEN [run[r] EXCEPT !.pc = "validated"]
                                    ELSE FailRun(r, verdict)]
    /\ UNCHANGED <<heap, section, last, clock, stories, content, label, extracted, counted,
                   jira, issues>>

RaceGenerateStoryContent(r) ==
    /\ run[r].pc = "validated"
    /\ \E ok \in BOOLEAN :
          run' = [run EXCEPT ![r] = IF ok THEN [run[r] EXCEPT !.pc = "generated"]
                                    ELSE FailRun(r, "generation failed")]
    /\ UNCHANGED <<heap, section, last, clock, stories, content, label, extracted, counted,
                   jira, issues>>

RaceCreateJiraIssue(r) ==
    /\ run[r].pc = "generated"
    /\ \E ok \in BOOLEAN :
          IF ok /\ Cardinality(issues) < MaxIssues
          THEN /\ issues' = IssuesAfterCreate(stories[r].stories[run[r].nextStory],
                                              stories[r].stories)
               /\ run' = [run EXCEPT ![r] = [run[r] EXCEPT !.pc = "created",
                                                           !.createdIssue = Cardinality(issues) + 1]]
          ELSE /\ run' = [run EXCEPT ![r] = FailRun(r, "Failed to Create Jira Issue")]
               /\ UNCHANGED issues
    /\ UNCHANGED <<heap, section, last, clock, stories, content, label, extracted, counted, jira>>

RaceUpdateEpicWithCompletion(r) ==
    /\ run[r].pc = "created"
    /\ \E ok \in BOOLEAN :
       \E x \in { addCompletionMarkerToShellStory((0 :> extracted[r].section), 0,
                      stories[r].stories[run[r].nextStory].id, IssueUrls[run[r].createdIssue],
                      clock, 1) } :
          IF x.threw
          THEN /\ run' = [run EXCEPT ![r] =
                             [FailRun(r, "created, but failed to update the epic")
                                 EXCEPT !.errorKey = run[r].createdIssue]]
               /\ UNCHANGED jira
          ELSE IF ok
          THEN /\ jira' = [jira EXCEPT !.content = extracted[r].remainingContent \o x.heap[x.ref]]
               /\ run' = [run EXCEPT ![r] = [run[r] EXCEPT !.pc = "done", !.put = TRUE]]
          ELSE /\ run' = [run EXCEPT ![r] =
                             [FailRun(r, "Failed to Update Epic")
                                 EXCEPT !.errorKey = run[r].createdIssue, !.put = TRUE]]
               /\ UNCHANGED jira
    /\ UNCHANGED <<heap, section, last, clock, stories, content, label, extracted, counted,
                   issues>>

NextRace ==
    \E r \in Runs :
        \/ RaceSetupFigmaScreens(r)
        \/ RaceExtractShellStoriesFromSetup(r)
        \/ RaceFindNextUnwrittenStory(r)
        \/ RaceValidateDependencies(r)
        \/ RaceGenerateStoryContent(r)
        \/ RaceCreateJiraIssue(r)
        \/ RaceUpdateEpicWithCompletion(r)

SpecRace == InitRace /\ [][NextRace]_vars

\* the targets of the link marks of a tree
HrefsIn(nodes) ==
    UNION { { NodeAt(nodes, p).marks[k].href :
                k \in { j \in DOMAIN NodeAt(nodes, p).marks : NodeAt(nodes, p).marks[j].type = "link" } } :
            p \in PathsOf(nodes) }

SelectedStory(r) == stories[r].stories[run[r].nextStory]
\* both invocations read the same description and both wrote theirs back
BothWroteBack == /\ \A r \in Runs : run[r].pc = "done"
                 /\ content[1] = content[2]

\* C24: lost update under concurrent runs: when two runs that fetched the same
\* description both complete (nothing serialises them), they selected the same story, two
\* issues exist for it, and the description written last does not link both issues: one
\* run's completion marker is lost.
C24_LostUpdate ==
    BothWroteBack
    => /\ SelectedStory(1) = SelectedStory(2)
       /\ run[1].createdIssue # run[2].createdIssue
       /\ \A r \in Runs : \E i \in issues : /\ i.key = run[r].createdIssue
                                            /\ i.summary = SelectedStory(1).title
       /\ ~({IssueUrls[run[1].createdIssue], IssueUrls[run[2].createdIssue]}
               \subseteq HrefsIn(jira.content))

\* the state the race leads to: two issues for one story, the epic linked to one of them
C24_Witness ==
    /\ BothWroteBack
    /\ Cardinality({ i \in issues : i.summary = SelectedStory(1).title }) = 2
    /\ \E r \in Runs : /\ IssueUrls[run[r].createdIssue] \in HrefsIn(jira.content)
                       /\ IssueUrls[run[3 - r].createdIssue] \notin HrefsIn(jira.content)

\* the record the parser returns for story id
StoryOf(parsed, id) ==
    parsed.stories[CHOOSE i \in DOMAIN parsed.stories : parsed.stories[i].id = id]

\* C25: first write wins at record level: when the section parses and lists the story
\* with a Jira link A, marking it again with another link B returns a section that
\* still parses and lists the story with the link A (stated for paragraphs whose only
\* emphasis-marked text, if any, is a closing timestamp run, so that the timestamp
\* rewrite cannot touch the title or the separator).
C25_FirstWriteWins ==
    (/\ Returned
     /\ ParsedBefore.error = ""
     /\ last.id \in ListedIds(ParsedBefore)
     /\ StoryOf(ParsedBefore, last.id).jiraUrl # ""
     /\ StoryOf(ParsedBefore, last.id).jiraUrl # last.url
     /\ \/ EmTexts(TargetContent(Before, last.id)) = {}
        \/ EndsWithTimestampRun(TargetContent(Before, last.id)))
    => /\ ParsedAfter.error = ""
       /\ last.id \in ListedIds(ParsedAfter)
       /\ StoryOf(ParsedAfter, last.id).jiraUrl = StoryOf(ParsedBefore, last.id).jiraUrl

(***************************************************************************)
(* Reassembly of the description (specification SpecExtract)               *)
(***************************************************************************)
\* content: [...setupResult.epicWithoutShellStoriesAdf, ...updatedShellStories]
Rebuilt == extracted.remainingContent \o extracted.section

\* the positions of content that the extracted section does not cover, in order
OutsideSection ==
    LET start == sectionStartIndex(content, label)
        n == Len(extracted.section)
    IN  SelectSeq([k \in 1..Len(content) |-> k],
                  LAMBDA k : k < start \/ k >= start + n)

\* C26: reassembly is stable: when exactly one heading of the content matches the label,
\* extracting again from remainder ++ section returns the same section and the same
\* remainder; the rebuilt content has exactly one matching heading, ends with the
\* section, and before it holds the other nodes in their original relative order.
C26_ReassemblyStable ==
    (extracted.called /\ countADFSectionsByHeading(content, label) = 1) =>
        LET again == extractADFSection(Rebuilt, label)
            n == Len(extracted.remainingContent)
        IN  /\ again.section = extracted.section
            /\ again.remainingContent = extracted.remainingContent
            /\ countADFSectionsByHeading(Rebuilt, label) = 1
            /\ sectionStartIndex(Rebuilt, label) = n + 1
            /\ SubSeq(Rebuilt, n + 1, Len(Rebuilt)) = extracted.section
            /\ n = Len(OutsideSection)
            /\ \A k \in 1..n : Rebuilt[k] = content[OutsideSection[k]]

\* a section cut out of the middle, so that the rebuilt content differs from the original
C26_Witness ==
    /\ extracted.called
    /\ countADFSectionsByHeading(content, label) = 1
    /\ Len(extracted.section) >= 2
    /\ sectionStartIndex(content, label) > 1
    /\ sectionStartIndex(content, label) + Len(extracted.section) <= Len(content)
    /\ Rebuilt # content
    /\ extractADFSection(Rebuilt, label).section = extracted.section

(***************************************************************************)
(* Specification SpecValidate: the work-list loop of validateDependencies, *)
(* one iteration per step.  stories holds the roster; run holds the        *)
(* selected story and the loop's toCheck, visited and the ids examined.    *)
(***************************************************************************)
MaxDeps == 2

St3 == <<"s", "t", "3">>

ScanStory(id, jiraUrl, dependencies) ==
    [id |-> id, title |-> <<"L">>, description |-> <<"d">>, jiraUrl |-> jiraUrl,
     dependencies |-> dependencies]

\* rosters of three stories; st3 is an id no story has
ScanRosters ==
    { << ScanStory(St1, u1, d1), ScanStory(St2, u2, d2), ScanStory(St9, u9, d9) >> :
        u1 \in {"", "u0"}, u2 \in {"", "u0"}, u9 \in {"", "u0"},
        d1 \in SeqsUpTo({St1, St2, St3}, MaxDeps),
        d2 \in SeqsUpTo({St1, St2, St3}, MaxDeps),
        d9 \in { <<>>, <<St1>>, <<St9, St1>> } }

\* the run at the call of validateDependencies(nextStory, shellStories)
ScanCalled(k) ==
    [pc |-> "selected", error |-> "", nextStory |-> k, createdIssue |-> 0, errorKey |-> 0,
     put |-> FALSE, sent |-> <<>>, toCheck |-> <<>>, visited |-> {}, examined |-> <<>>]

InitValidate ==
    /\ \E roster \in ScanRosters :
          /\ findNextUnwrittenStory(roster) # 0
          /\ stories = [error |-> "", errId |-> NullId, stories |-> roster]
          /\ run = ScanCalled(findNextUnwrittenStory(roster))
    /\ jira = <<>>
    /\ issues = {}
    /\ clock = 0
    /\ content = <<>>
    /\ label = <<>>
    /\ counted = -1
    /\ extracted = NotExtracted
    /\ heap = (0 :> <<>>)
    /\ section = 0
    /\ last = NoCall

\* const visited = new Set(); const toCheck = [...story.dependencies]
ScanStart ==
    /\ run.pc = "selected"
    /\ run' = [run EXCEPT !.pc = "scanning",
                          !.toCheck = stories.stories[run.nextStory].dependencies,
                          !.visited = {}]
    /\ UNCHANGED <<heap, section, last, clock, stories, content, label, extracted, counted,
                   jira, issues>>

\* const depId = toCheck.shift(); if (visited.has(depId)) continue
ScanSkip ==
    /\ run.pc = "scanning"
    /\ run.toCheck # <<>>
    /\ Head(run.toCheck) \in run.visited
    /\ run' = [run EXCEPT !.toCheck = Tail(@)]
    /\ UNCHANGED <<heap, section, last, clock, stories, content, label, extracted, counted,
                   jira, issues>>

\* visited.add(depId); find; the two throws; toCheck.push(...depStory.dependencies)
ScanExamine ==
    /\ run.pc = "scanning"
    /\ run.toCheck # <<>>
    /\ Head(run.toCheck) \notin run.visited
    /\ LET depId == Head(run.toCheck)
           found == { i \in DOMAIN stories.stories : stories.stories[i].id = depId }
           seen == [run EXCEPT !.toCheck = Tail(@), !.visited = @ \cup {depId},
                               !.examined = Append(@, depId)]
       IN  run' = IF found = {}
                  THEN [seen EXCEPT !.pc = "failed", !.error = "Dependency Not Found"]
                  ELSE IF stories.stories[MinOf(found)].jiraUrl = ""
                  THEN [seen EXCEPT !.pc = "failed", !.error = "Dependency Not Yet Written"]
                  ELSE [seen EXCEPT !.toCheck = @ \o stories.stories[MinOf(found)].dependencies]
    /\ UNCHANGED <<heap, section, last, clock, stories, content, label, extracted, counted,
                   jira, issues>>

\* while (toCheck.length > 0) is over: the function returns
ScanReturn ==
    /\ run.pc = "scanning"
    /\ run.toCheck = <<>>
    /\ run' = [run EXCEPT !.pc = "validated"]
    /\ UNCHANGED <<heap, section, last, clock, stories, content, label, extracted, counted,
                   jira, issues>>

NextValidate == ScanStart \/ ScanSkip \/ ScanExamine \/ ScanReturn

SpecValidate == InitValidate /\ [][NextValidate]_vars

\* what is left to do: the reachable ids not yet visited, then the length of the work list
Unvisited == Cardinality(ReachableIds \ run.visited)

\* the selected story is reachable from itself through dependencies
OnOwnCycle == Roster[run.nextStory].id \in ReachableIds

\* C28: validateDependencies terminates on every roster, cycles and self-references
\* included: no id is examined twice, the examined ids are ids reachable from the story,
\* so there are at most as many examinations as reachable ids; every iteration either
\* examines a new id or shortens the work list; the loop's verdict is the function's; and
\* a story on a dependency cycle through itself is rejected as 'not yet written'.
C28_ScanTerminates ==
    [][ /\ \A i, j \in DOMAIN run'.examined : run'.examined[i] = run'.examined[j] => i = j
        /\ Range(run'.examined) \subseteq ReachableIds
        /\ Len(run'.examined) <= Cardinality(ReachableIds)
        /\ run.pc = "scanning" =>
              \/ Unvisited' < Unvisited
              \/ Unvisited' = Unvisited /\ Len(run'.toCheck) < Len(run.toCheck)
              \/ run'.pc = "validated"
        /\ run'.pc \in {"validated", "failed"} =>
              /\ run'.error = validateDependencies(Roster[run.nextStory], Roster)
              /\ OnOwnCycle =>
                    run'.pc = "failed" /\ run'.error = "Dependency Not Yet Written" ]_vars

(***************************************************************************)
(* Order of the writes of one run (specification SpecFlow)                 *)
(***************************************************************************)
Occurrences(log, write) == Cardinality({ k \in DOMAIN log : log[k] = write })

\* the writes a step adds to the run's log
NewlySent == SubSeq(run'.sent, Len(run.sent) + 1, Len(run'.sent))

\* C27: order of the writes of one run: the POST of the issue is sent only by a run that
\* has fetched the epic, parsed a roster without error, selected a story whose
\* dependencies validate and generated its text; the PUT of the epic is sent only after
\* the POST of the issue has succeeded; a run sends at most one of each; and a blocker
\* link whose POST fails leaves the run on its way to the PUT of the epic.
C27_WriteOrder ==
    [][ Len(run'.sent) > Len(run.sent) =>
          /\ SubSeq(run'.sent, 1, Len(run.sent)) = run.sent
          /\ "POST issue" \in Range(NewlySent) =>
                /\ Occurrences(run'.sent, "POST issue") = 1
                /\ run.pc = "generated"
                /\ extracted.called /\ content = jira.content
                /\ stories.error = "" /\ stories.stories # <<>>
                /\ run.nextStory \in DOMAIN stories.stories
                /\ validateDependencies(stories.stories[run.nextStory], stories.stories) = ""
                /\ "PUT epic" \notin Range(run'.sent)
          /\ "PUT epic" \in Range(NewlySent) =>
                /\ Occurrences(run'.sent, "PUT epic") = 1
                /\ "POST issue" \in Range(run.sent)
                /\ run.pc = "created"
                /\ run.createdIssue \in { i.key : i \in issues }
          /\ "POST issueLink failed" \in Range(NewlySent) => run'.pc = "created" ]_vars

\* a run that created the issue, had a blocker link refused and still updated the epic
C27_Witness ==
    /\ run.pc = "done"
    /\ "POST issueLink failed" \in Range(run.sent)
    /\ run.sent[1] = "POST issue"
    /\ run.sent[Len(run.sent)] = "PUT epic"

(***************************************************************************)
(* Progress over successive runs (specification SpecFlow)                  *)
(***************************************************************************)
\* the roster a later run reads from an epic description
EpicRoster(description) ==
    parseShellStoriesFromAdf(extractADFSection(description, <<"S", "T">>).section)

\* every earlier run that created an issue also updated the epic: the description
\* links each issue created so far
EveryIssueLinked == \A a \in issues : IssueUrls[a.key] \in HrefsIn(jira.content)

\* C29: progress across sequential runs: a run whose epic update succeeds leaves a
\* description in which exactly the story it selected, the first unwritten one, has
\* turned into a completed one and every other story is as written as before; and while
\* the description links every issue created so far, a run creates no issue for a story
\* that already has one.
C29_SequentialProgress ==
    [][ /\ (run.pc = "created" /\ run'.pc = "done") =>
              LET before == stories.stories
                  after == EpicRoster(jira'.content)
              IN  /\ IsFirstUnwritten(run.nextStory)
                  /\ after.error = ""
                  /\ Len(after.stories) = Len(before)
                  /\ \A i \in DOMAIN before :
                        /\ after.stories[i].id = before[i].id
                        /\ (after.stories[i].jiraUrl # "") <=>
                              (before[i].jiraUrl # "" \/ i = run.nextStory)
        /\ (issues' # issues /\ EveryIssueLinked) =>
              \A a \in issues : a.summary # stories.stories[run.nextStory].title ]_vars

(***************************************************************************)
(* Specification SpecOAuth: the authorize and callback handlers of the     *)
(* OAuth bridge on one session.  run holds req.session, last the request   *)
(* handled last and the response to it.                                    *)
(***************************************************************************)
Undefined == "<undefined>"
Null == "<null>"
Truthy(v) == v \notin {Undefined, Null, ""}

\* a session without OAuth fields
NoSession ==
    [codeVerifier |-> Undefined, state |-> Undefined, mcpClientId |-> Undefined,
     mcpRedirectUri |-> Undefined, mcpScope |-> Undefined, mcpResource |-> Undefined,
     usingMcpPkce |-> Undefined]

\* a session the callback leaves as it is
KeptSession(session) == session

\* the seven deletes of callback
ClearedSession(session) == NoSession

NoRequest ==
    [handler |-> "none", query |-> <<>>, status |-> 0, location |-> Undefined,
     code |-> Undefined, state |-> Undefined]

AuthorizeQueries ==
    [client_id : {"vscode"}, redirect_uri : {Undefined, "", "uri"}, scope : {"read"},
     state : {Undefined, "s1", "s2"}, code_challenge : {Undefined, "ch"},
     code_challenge_method : {Undefined, "S256"}, resource : {Undefined}]

CallbackQueries == [code : {Undefined, "", "c1", "c2"}, state : {Undefined, "s1", "s2"}]

\* code and state of the callback's query; normalizedState is the state Atlassian
\* returned, undefined when it returned none
extractAtlassianCallbackParams(query) ==
    [code |-> query.code, state |-> query.state, normalizedState |-> query.state]

InitOAuth ==
    /\ run = NoSession
    /\ last = NoRequest
    /\ jira = <<>>
    /\ issues = {}
    /\ clock = 0
    /\ content = <<>>
    /\ label = <<>>
    /\ counted = -1
    /\ extracted = NotExtracted
    /\ stories = NotParsed
    /\ heap = (0 :> <<>>)
    /\ section = 0

authorize ==
    \E query \in AuthorizeQueries :
       LET codeVerifier == IF Truthy(query.code_challenge) /\ Truthy(query.code_challenge_method)
                           THEN Null ELSE "verifier"
       IN  /\ run' = [codeVerifier |-> codeVerifier, state |-> query.state,
                      mcpClientId |-> query.client_id, mcpRedirectUri |-> query.redirect_uri,
                      mcpScope |-> query.scope, mcpResource |-> query.resource,
                      usingMcpPkce |-> IF Truthy(codeVerifier) THEN "false" ELSE "true"]
           /\ last' = [handler |-> "authorize", query |-> query, status |-> 302,
                       location |-> "atlassian", code |-> Undefined, state |-> query.state]
           /\ UNCHANGED <<heap, section, clock, stories, content, label, extracted, counted,
                          jira, issues>>

callback ==
    \E query \in CallbackQueries :
       LET params == extractAtlassianCallbackParams(query)
           stateMatches == params.normalizedState = run.state
           invalid == [handler |-> "callback", query |-> query, status |-> 400,
                       location |-> Undefined, code |-> Undefined, state |-> Undefined]
       IN  /\ IF ~Truthy(params.code) \/ ~stateMatches
              THEN last' = invalid /\ UNCHANGED run
              ELSE IF run.usingMcpPkce = "true" /\ Truthy(run.mcpRedirectUri)
              THEN /\ run' = ClearedSession(run)
                   /\ last' = [handler |-> "callback", query |-> query, status |-> 302,
                               location |-> run.mcpRedirectUri, code |-> params.code,
                               state |-> params.normalizedState]
              ELSE last' = invalid /\ UNCHANGED run
           /\ UNCHANGED <<heap, section, clock, stories, content, label, extracted, counted,
                          jira, issues>>

NextOAuth == authorize \/ callback

SpecOAuth == InitOAuth /\ [][NextOAuth]_vars

====
